---- MODULE Spec2Model ----
(***************************************************************************)
(* Delivery pipeline of the birthday reminder: the scheduler              *)
(* (BirthdaySchedulerService), the ledger (BirthdayService over the       *)
(* birthday_messages table), the Redis lock (LockService), the RabbitMQ   *)
(* producer and consumer, and the recovery job (RecoveryService).         *)
(* Every await of the source is one step of the process that runs it, so  *)
(* the instances interleave where the code can.                           *)
(***************************************************************************)
EXTENDS Integers, Sequences, FiniteSets, TLC

\* ------------------------------------------------------------- bounds
\* Rows the table may hold (the unique constraint keeps it at one per
\* (user, year); the cap only stops a broken constraint from growing it).
MaxRecords == 2
\* Scheduler runs (cron ticks taken by any instance) explored.
MaxScans == 2
\* Lock leases that run out (Redis EX) explored.
MaxExpiries == 2
\* Recovery job runs explored.
MaxPasses == 1
\* Notifier calls explored beside the recovery job.
MaxCalls == 3
\* Redeliveries of an entry after which the ledger is taken as reachable.
MaxRedeliveries == 5

\* ---------------------------------------------------- program constants
MAX_RETRY_ATTEMPTS == 5
RETRY_DELAYS == <<1000, 5000, 15000, 60000, 300000>>

Instances == {"i1", "i2"}
Users == {"u1", "u2"}
Years == {2024, 2025}
Timezones == {"Zone/A", "Zone/B"}
RecordIds == 1..MaxRecords

VARIABLES
  ledger,    \* birthday_messages: a sequence of rows, the id is the index
  locks,     \* Redis: lock key -> holding instance, or "none"
  queue,     \* birthday-messages: record id -> entries ready for delivery
  dlq,       \* birthday-messages-dlq: record id -> entries
  year,      \* the calendar year the servers' clocks read
  nscans, nexp, npasses, ncalls,  \* counters that bound the exploration
  spc, stzs, susers, suser, syear, smsg, screate, scode, srun,  \* scheduler
  wpc, wmsg, watt, werr,          \* consumer callback of each instance
  rpc, rbatch, rrun,              \* recovery job of each instance
  okSends,   \* record id -> notifier calls that returned 2xx
  calls,     \* record id -> outcomes of the notifier calls, in order
  delays,    \* record id -> redelivery delays chosen, in order
  okAfterPass,  \* record id -> a 2xx call was made after a finished
                \* recovery pass had left the row queued
  slog,      \* the errors logged by the catch of processBirthdaysForTimezone:
             \* <<timezone, user in hand>>, "-" for the directory query
  directory, \* users: the timezone of every user whose birthday is today
  fargs,     \* the arguments of a call made from outside the pipeline
  fret,      \* what that call returned
  consumerChannel, \* instance -> this.channel of the consumer service is set
  consuming, \* instance -> channel.consume was called on the birthday queue
  ipc,       \* instance -> where onModuleInit of the consumer service is
  timer      \* instance -> a setTimeout(() => this.connect(), 5000) is set

ledgerVars == <<ledger, year>>
queueVars == <<queue, dlq>>
boundVars == <<nscans, nexp, npasses, ncalls>>
schedVars == <<spc, stzs, susers, suser, syear, smsg, screate, scode, srun>>
workVars == <<wpc, wmsg, watt, werr>>
recVars == <<rpc, rbatch, rrun>>
histVars == <<okSends, calls, delays, okAfterPass, slog>>
apiVars == <<directory, fargs, fret>>
connVars == <<consumerChannel, consuming, ipc, timer>>
\* No call from outside was made.
NoCall == [fn |-> "none"]
vars == <<ledger, locks, queue, dlq, year, nscans, nexp, npasses, ncalls,
          spc, stzs, susers, suser, syear, smsg, screate, scode, srun,
          wpc, wmsg, watt, werr, rpc, rbatch, rrun, okSends, calls, delays,
          okAfterPass, slog, directory, fargs, fret, consumerChannel,
          consuming, ipc, timer>>

\* The users findUsersWithBirthdayInTimezones returns for a timezone: the
\* rows of the users table with today's month and day and that timezone.
RECURSIVE InUserOrder(_, _)
InUserOrder(order, S) ==
  IF order = <<>> THEN <<>>
  ELSE (IF Head(order) \in S THEN <<Head(order)>> ELSE <<>>)
         \o InUserOrder(Tail(order), S)

findUsersWithBirthdayInTimezones(dir, tz) ==
  InUserOrder(<<"u1", "u2">>, {u \in DOMAIN dir : dir[u] = tz})

\* ------------------------------------------------------------ lock keys
SchedulerKey == [kind |-> "birthday-scheduler-lock", u |-> "-", n |-> 0]
RecoveryKey == [kind |-> "recovery-job-lock", u |-> "-", n |-> 0]
UserKey(u, y) == [kind |-> "birthday-user", u |-> u, n |-> y]
ProcessKey(m) == [kind |-> "process", u |-> "-", n |-> m]
LockKeys ==
  {SchedulerKey, RecoveryKey}
    \cup {UserKey(u, y) : u \in Users, y \in Years}
    \cup {ProcessKey(m) : m \in RecordIds}

\* SET key value NX EX ttl: set only when the key is absent.
acquireLock(L, key, i) == IF L[key] = "none" THEN [L EXCEPT ![key] = i] ELSE L
\* A SET without NX: the reply is OK whatever the key holds.
lockAcquiredWithoutNX(L, key) == TRUE

\* The reply is 'OK' only when the key was absent.
lockAcquired(L, key) == L[key] = "none"
\* DEL key: whoever holds it.
releaseLock(L, key) == [L EXCEPT ![key] = "none"]

\* ------------------------------------------------------------- the ledger
\* scheduledFor is kept as what the recovery query reads of it: "past" when
\* scheduledFor <= now. It is 09:00 of the current local day, so it is past
\* at once when the scan ran at the 09:00 minute and may be ahead in
\* TEST_MODE, where the scan runs at any minute.
NewRow(u, y, scheduledFor) ==
  [userId |-> u, year |-> y, status |-> "pending", attempts |-> 0,
   lastError |-> "null", sentAt |-> FALSE, scheduledFor |-> scheduledFor]

\* findOne({ where: { userId, year } })
existing(L, u, y) == \E m \in 1..Len(L) : L[m].userId = u /\ L[m].year = y

\* The table without its unique constraint.
NoUniqueConstraint(L, u, y) == FALSE

\* @Unique(['userId', 'year']): the insert is refused with 23505.
UniqueViolation(L, u, y) == \E m \in 1..Len(L) : L[m].userId = u /\ L[m].year = y

\* A catch that rethrows whatever the store raised.
CatchCreateRethrowsAll(code) == "threw"

\* The catch of createBirthdayMessage: what becomes of a store error.
CatchCreate(code) == IF code = "23505" THEN "null" ELSE "threw"

update(L, m, f, v) == IF m \in 1..Len(L) THEN [L EXCEPT ![m][f] = v] ELSE L
markAsQueued(L, m) == update(L, m, "status", "queued")
\* A markAsSent that counts the successful call as an attempt.
markAsSentCountingAttempt(L, m) ==
  IF m \in 1..Len(L)
    THEN [L EXCEPT ![m].status = "sent", ![m].sentAt = TRUE,
                   ![m].attempts = @ + 1]
    ELSE L

markAsSent(L, m) == update(update(L, m, "status", "sent"), m, "sentAt", TRUE)
\* A markAsFailed that leaves the attempt count as it is.
incrementNothing(L, m) == L

increment(L, m) ==
  IF m \in 1..Len(L) THEN [L EXCEPT ![m].attempts = @ + 1] ELSE L
updateFailed(L, m, err) ==
  update(update(L, m, "status", "failed"), m, "lastError", err)
resetToPending(L, m) == update(L, m, "status", "pending")

\* --------------------------------------------------------------- the queue
\* sendToQueue(BIRTHDAY_QUEUE, ...)
publishBirthdayMessage(Q, m) == [Q EXCEPT ![m] = @ + 1]

Pop(s) == IF s = <<>> THEN <<>> ELSE Tail(s)

\* ------------------------------------------------------------ environment
\* A lease runs out (EX ttl) while its key is still set.
Expire(key) ==
  /\ nexp < MaxExpiries
  /\ locks[key] # "none"
  /\ locks' = [locks EXCEPT ![key] = "none"]
  /\ nexp' = nexp + 1
  /\ UNCHANGED <<ledgerVars, queueVars, nscans, npasses, ncalls, schedVars,
                 workVars, recVars, histVars, apiVars, connVars>>

\* The servers' clocks pass into the next calendar year.
NewYear ==
  /\ year + 1 \in Years
  /\ year' = year + 1
  /\ UNCHANGED <<ledger, locks, queueVars, boundVars, schedVars, workVars,
                 recVars, histVars, apiVars, connVars>>

\* The clock passes the scheduledFor instant of a row.
TimePasses(m) ==
  /\ m \in 1..Len(ledger)
  /\ ledger[m].scheduledFor = "future"
  /\ ledger' = [ledger EXCEPT ![m].scheduledFor = "past"]
  /\ UNCHANGED <<year, locks, queueVars, boundVars, schedVars, workVars,
                 recVars, histVars, apiVars, connVars>>

\* ------------------------------------------- BirthdaySchedulerService
\* checkBirthdays, lock acquired: the run goes on to the scan.
checkBirthdaysRun(i) ==
  /\ spc[i] = "idle"
  /\ nscans < MaxScans
  /\ lockAcquired(locks, SchedulerKey)
  /\ locks' = acquireLock(locks, SchedulerKey, i)
  /\ spc' = [spc EXCEPT ![i] = "timezones"]
  /\ srun' = [srun EXCEPT ![i] = "ran"]
  /\ nscans' = nscans + 1
  /\ UNCHANGED <<ledgerVars, queueVars, nexp, npasses, ncalls, stzs, susers, suser,
                 syear, smsg, screate, scode, workVars, recVars, histVars, apiVars, connVars>>

\* checkBirthdays, lock not acquired: return before the try block.
checkBirthdaysSkipReleasing(i) ==
  /\ spc[i] = "idle"
  /\ nscans < MaxScans
  /\ ~lockAcquired(locks, SchedulerKey)
  /\ locks' = releaseLock(locks, SchedulerKey)
  /\ srun' = [srun EXCEPT ![i] = "skipped"]
  /\ nscans' = nscans + 1
  /\ UNCHANGED <<ledgerVars, queueVars, nexp, npasses, ncalls, spc, stzs, susers,
                 suser, syear, smsg, screate, scode, workVars, recVars, histVars, apiVars, connVars>>

checkBirthdaysSkip(i) ==
  /\ spc[i] = "idle"
  /\ nscans < MaxScans
  /\ ~lockAcquired(locks, SchedulerKey)
  /\ srun' = [srun EXCEPT ![i] = "skipped"]
  /\ nscans' = nscans + 1
  /\ UNCHANGED <<ledgerVars, locks, queueVars, nexp, npasses, ncalls, spc, stzs,
                 susers, suser, syear, smsg, screate, scode, workVars, recVars,
                 histVars, apiVars, connVars>>

\* Zone/A and Zone/B share their offset: they read 09:00 in the same
\* minute, and are found in the order of moment.tz.names().
ZonesAtTime == {<<>>, <<"Zone/A", "Zone/B">>}

\* getTimezonesAtTime: the zones reading the target time now; none of them
\* is the early return, which still passes through the finally block.
getTimezonesAtTime(i) ==
  /\ spc[i] = "timezones"
  /\ \E tzs \in ZonesAtTime :
       /\ stzs' = [stzs EXCEPT ![i] = tzs]
       /\ spc' = [spc EXCEPT ![i] = IF tzs = <<>> THEN "release" ELSE "tz"]
  /\ UNCHANGED <<ledgerVars, locks, queueVars, boundVars, susers, suser,
                 syear, smsg, screate, scode, srun, workVars, recVars, histVars, apiVars, connVars>>

\* logger.error of the catch of processBirthdaysForTimezone.
Logged(log, tz, u) == log \cup {<<tz, u>>}

\* A processBirthdaysForTimezone without its try/catch: the error of the
\* directory query reaches the catch of checkBirthdays, which ends the run.
processBirthdaysForTimezoneRethrows(i) ==
  /\ spc[i] = "tz"
  /\ stzs[i] # <<>>
  /\ slog' = Logged(slog, Head(stzs[i]), "-")
  /\ spc' = [spc EXCEPT ![i] = "release"]
  /\ UNCHANGED <<okSends, calls, delays, okAfterPass>>
  /\ UNCHANGED <<ledgerVars, locks, queueVars, boundVars, stzs, susers, suser,
                 syear, smsg, screate, scode, srun, workVars, recVars, apiVars, connVars>>

\* processBirthdaysForTimezone with the directory query throwing (the users
\* database is unreachable): the catch logs the error, and the loop of
\* checkBirthdays goes on with the next timezone.
processBirthdaysForTimezoneThrows(i) ==
  /\ spc[i] = "tz"
  /\ stzs[i] # <<>>
  /\ slog' = Logged(slog, Head(stzs[i]), "-")
  /\ stzs' = [stzs EXCEPT ![i] = Pop(stzs[i])]
  /\ UNCHANGED <<okSends, calls, delays, okAfterPass>>
  /\ UNCHANGED <<ledgerVars, locks, queueVars, boundVars, spc, susers, suser,
                 syear, smsg, screate, scode, srun, workVars, recVars, apiVars, connVars>>

\* The for loop of checkBirthdays and the directory query of
\* processBirthdaysForTimezone.
processBirthdaysForTimezone(i) ==
  /\ spc[i] = "tz"
  /\ IF stzs[i] = <<>>
       THEN /\ spc' = [spc EXCEPT ![i] = "release"]
            /\ UNCHANGED susers
       ELSE /\ susers' = [susers EXCEPT
                 ![i] = findUsersWithBirthdayInTimezones(directory,
                                                         Head(stzs[i]))]
            /\ spc' = [spc EXCEPT ![i] = "user"]
  /\ UNCHANGED <<ledgerVars, locks, queueVars, boundVars, stzs, suser, syear,
                 smsg, screate, scode, srun, workVars, recVars, histVars, apiVars, connVars>>

\* The for loop over the users, and createAndQueueBirthdayMessage up to the
\* per-user lock: not acquired is a return, acquired goes on to the create.
createAndQueueBirthdayMessage(i) ==
  /\ spc[i] = "user"
  /\ IF susers[i] = <<>>
       THEN /\ stzs' = [stzs EXCEPT ![i] = Pop(stzs[i])]
            /\ spc' = [spc EXCEPT ![i] = "tz"]
            /\ UNCHANGED <<locks, susers, suser>>
       ELSE LET u == Head(susers[i])
                key == UserKey(u, year)
            IN IF lockAcquired(locks, key)
                 THEN /\ locks' = acquireLock(locks, key, i)
                      /\ suser' = [suser EXCEPT ![i] = u]
                      /\ spc' = [spc EXCEPT ![i] = "findOne"]
                      /\ UNCHANGED <<stzs, susers>>
                 ELSE /\ susers' = [susers EXCEPT ![i] = Tail(susers[i])]
                      /\ UNCHANGED <<locks, stzs, suser, spc>>
  /\ UNCHANGED <<ledgerVars, queueVars, boundVars, syear, smsg, screate, scode, srun,
                 workVars, recVars, histVars, apiVars, connVars>>

\* A createBirthdayMessage that returns the existing row instead of null.
createBirthdayMessageReturnsExisting(i) ==
  /\ spc[i] = "findOne"
  /\ syear' = [syear EXCEPT ![i] = year]
  /\ scode' = [scode EXCEPT ![i] = "none"]
  /\ IF existing(ledger, suser[i], year)
       THEN /\ screate' = [screate EXCEPT ![i] = "created"]
            /\ smsg' = [smsg EXCEPT
                 ![i] = CHOOSE m \in 1..Len(ledger) :
                          /\ ledger[m].userId = suser[i]
                          /\ ledger[m].year = year]
            /\ spc' = [spc EXCEPT ![i] = "publish"]
       ELSE /\ spc' = [spc EXCEPT ![i] = "save"]
            /\ UNCHANGED <<screate, smsg>>
  /\ UNCHANGED <<ledgerVars, locks, queueVars, boundVars, stzs, susers,
                 suser, srun, workVars, recVars, histVars, apiVars, connVars>>

\* createBirthdayMessage: year = scheduledFor.getFullYear(), then the
\* findOne; an existing row is the return of null.
createBirthdayMessageFindOne(i) ==
  /\ spc[i] = "findOne"
  /\ syear' = [syear EXCEPT ![i] = year]
  /\ scode' = [scode EXCEPT ![i] = "none"]
  /\ IF existing(ledger, suser[i], year)
       THEN /\ screate' = [screate EXCEPT ![i] = "null"]
            /\ susers' = [susers EXCEPT ![i] = Pop(susers[i])]
            /\ spc' = [spc EXCEPT ![i] = "user"]
       ELSE /\ spc' = [spc EXCEPT ![i] = "save"]
            /\ UNCHANGED <<screate, susers>>
  /\ UNCHANGED <<ledgerVars, locks, queueVars, boundVars, stzs, suser, smsg,
                 srun, workVars, recVars, histVars, apiVars, connVars>>

\* What the scheduler does with the result of createBirthdayMessage:
\* `if (message)` publishes, null goes to the next user, an exception
\* leaves the user loop for the catch of processBirthdaysForTimezone.
AfterCreate(i, result) ==
  /\ screate' = [screate EXCEPT ![i] = result]
  /\ spc' = [spc EXCEPT ![i] = CASE result = "created" -> "publish"
                                 [] result = "null" -> "user"
                                 [] OTHER -> "tz"]
  /\ susers' = [susers EXCEPT
       ![i] = IF result = "null" THEN Pop(susers[i]) ELSE susers[i]]
  /\ stzs' = [stzs EXCEPT
       ![i] = IF result = "threw" THEN Pop(stzs[i]) ELSE stzs[i]]
  /\ slog' = IF result = "threw"
               THEN Logged(slog, Head(stzs[i]), suser[i]) ELSE slog
  /\ UNCHANGED <<okSends, calls, delays, okAfterPass>>

\* createBirthdayMessage: the save. The store inserts the row, refuses it
\* with 23505 when the (user, year) pair is taken, or fails otherwise.
createBirthdayMessageSave(i) ==
  /\ spc[i] = "save"
  /\ \E fault \in BOOLEAN, scheduledFor \in {"past", "future"} :
       IF fault
         THEN /\ AfterCreate(i, CatchCreate("other"))
              /\ scode' = [scode EXCEPT ![i] = "other"]
              /\ UNCHANGED <<ledger, smsg>>
         ELSE IF UniqueViolation(ledger, suser[i], syear[i])
           THEN /\ AfterCreate(i, CatchCreate("23505"))
                /\ scode' = [scode EXCEPT ![i] = "23505"]
                /\ UNCHANGED <<ledger, smsg>>
           ELSE /\ Len(ledger) < MaxRecords
                /\ ledger' = Append(ledger,
                                    NewRow(suser[i], syear[i], scheduledFor))
                /\ smsg' = [smsg EXCEPT ![i] = Len(ledger) + 1]
                /\ AfterCreate(i, "created")
                /\ UNCHANGED scode
  /\ UNCHANGED <<year, locks, queueVars, boundVars, suser, syear, srun,
                 workVars, recVars, apiVars, connVars>>

\* A publish whose failure is swallowed, so that markAsQueued follows.
schedulerPublishSwallowsError(i) ==
  /\ spc[i] = "publish"
  /\ \E channel \in BOOLEAN :
       /\ queue' = IF channel THEN publishBirthdayMessage(queue, smsg[i])
                   ELSE queue
       /\ spc' = [spc EXCEPT ![i] = "markAsQueued"]
  /\ UNCHANGED <<ledgerVars, locks, dlq, boundVars, stzs, susers, suser,
                 syear, smsg, screate, scode, srun, workVars, recVars,
                 histVars, apiVars, connVars>>

\* publishBirthdayMessage from the scheduler: the channel takes the entry,
\* or is not initialized and the call throws.
schedulerPublish(i) ==
  /\ spc[i] = "publish"
  /\ \E channel \in BOOLEAN :
       IF channel
         THEN /\ queue' = publishBirthdayMessage(queue, smsg[i])
              /\ spc' = [spc EXCEPT ![i] = "markAsQueued"]
              /\ UNCHANGED <<stzs, slog>>
         ELSE /\ spc' = [spc EXCEPT ![i] = "tz"]
              /\ stzs' = [stzs EXCEPT ![i] = Pop(stzs[i])]
              /\ slog' = Logged(slog, Head(stzs[i]), suser[i])
              /\ UNCHANGED queue
  /\ UNCHANGED <<okSends, calls, delays, okAfterPass>>
  /\ UNCHANGED <<ledgerVars, locks, dlq, boundVars, susers, suser, syear,
                 smsg, screate, scode, srun, workVars, recVars, apiVars, connVars>>

\* markAsQueued after the publish; the per-user lock is kept.
schedulerMarkAsQueued(i) ==
  /\ spc[i] = "markAsQueued"
  /\ ledger' = markAsQueued(ledger, smsg[i])
  /\ susers' = [susers EXCEPT ![i] = Pop(susers[i])]
  /\ spc' = [spc EXCEPT ![i] = "user"]
  /\ UNCHANGED <<year, locks, queueVars, boundVars, stzs, suser, syear, smsg,
                 screate, scode, srun, workVars, recVars, histVars, apiVars, connVars>>

\* The body of checkBirthdays throws outside processBirthdaysForTimezone
\* (getTimezonesAtTime): the catch of checkBirthdays logs 'Error in birthday
\* scheduler' and the finally block follows.
checkBirthdaysThrows(i) ==
  /\ spc[i] = "timezones"
  /\ spc' = [spc EXCEPT ![i] = "release"]
  /\ slog' = Logged(slog, "-", "-")
  /\ UNCHANGED <<okSends, calls, delays, okAfterPass>>
  /\ UNCHANGED <<ledgerVars, locks, queueVars, boundVars, stzs, susers, suser,
                 syear, smsg, screate, scode, srun, workVars, recVars, apiVars, connVars>>

\* A checkBirthdays with the release as the last statement of its try
\* block: it is not reached when the body threw.
checkBirthdaysReleaseInTry(i) ==
  /\ spc[i] = "release"
  /\ locks' = IF <<"-", "-">> \in slog
                THEN locks ELSE releaseLock(locks, SchedulerKey)
  /\ spc' = [spc EXCEPT ![i] = "idle"]
  /\ UNCHANGED <<ledgerVars, queueVars, boundVars, stzs, susers, suser, syear,
                 smsg, screate, scode, srun, workVars, recVars, histVars, apiVars, connVars>>

\* The finally block of checkBirthdays.
checkBirthdaysFinally(i) ==
  /\ spc[i] = "release"
  /\ locks' = releaseLock(locks, SchedulerKey)
  /\ spc' = [spc EXCEPT ![i] = "idle"]
  /\ UNCHANGED <<ledgerVars, queueVars, boundVars, stzs, susers, suser, syear,
                 smsg, screate, scode, srun, workVars, recVars, histVars, apiVars, connVars>>

\* ------------------------------------------------ BirthdayConsumerService
\* The schedule indexed by the attempt number, one past the count read.
retryDelayOfNextAttempt(attempts) ==
  IF attempts + 2 \in DOMAIN RETRY_DELAYS
    THEN RETRY_DELAYS[attempts + 2]
    ELSE RETRY_DELAYS[Len(RETRY_DELAYS)]

\* RETRY_DELAYS[attempts] || RETRY_DELAYS[RETRY_DELAYS.length - 1]
retryDelay(attempts) ==
  IF attempts + 1 \in DOMAIN RETRY_DELAYS
    THEN RETRY_DELAYS[attempts + 1]
    ELSE RETRY_DELAYS[Len(RETRY_DELAYS)]

\* ------------------------------------- BirthdayConsumerService.onModuleInit
\* The consumer service of every instance after an onModuleInit in which
\* connect succeeded: it has a channel and consumes the birthday queue.
Connected ==
  /\ consumerChannel = [i \in Instances |-> TRUE]
  /\ consuming = [i \in Instances |-> TRUE]
  /\ ipc = [i \in Instances |-> "done"]
  /\ timer = [i \in Instances |-> FALSE]

\* What a run of connect comes to: amqp.connect or createChannel rejects
\* ("unreachable": this.channel is not assigned), prefetch or an assertQueue
\* rejects after this.channel was assigned ("assertFailed"), or no call
\* rejects ("connected").
ConnectOutcomes == {"unreachable", "assertFailed", "connected"}

\* connect: try { ... } catch { logger.error; setTimeout(connect, 5000) }.
\* It never throws; all it leaves behind is the channel and the timer.
connect(i, outcome) ==
  /\ consumerChannel' = [consumerChannel EXCEPT
                           ![i] = @ \/ outcome # "unreachable"]
  /\ timer' = [timer EXCEPT ![i] = outcome # "connected"]

\* The timer set by the catch of connect fires: connect runs again, and
\* nothing else does.
connectAgain(i, outcome) ==
  /\ timer[i]
  /\ connect(i, outcome)
  /\ UNCHANGED <<consuming, ipc>>
  /\ UNCHANGED <<ledgerVars, locks, queueVars, boundVars, schedVars, workVars,
                 recVars, histVars, apiVars>>

connectRetry(i) == \E outcome \in ConnectOutcomes : connectAgain(i, outcome)

\* onModuleInit: await this.connect().
onModuleInitConnect(i) ==
  /\ ipc[i] = "connect"
  /\ \E outcome \in ConnectOutcomes : connect(i, outcome)
  /\ ipc' = [ipc EXCEPT ![i] = "startConsuming"]
  /\ UNCHANGED consuming
  /\ UNCHANGED <<ledgerVars, locks, queueVars, boundVars, schedVars, workVars,
                 recVars, histVars, apiVars>>

\* onModuleInit: await this.startConsuming(), which returns after logging
\* 'Channel not initialized' when there is no channel and calls
\* channel.consume otherwise.
startConsuming(i) ==
  /\ ipc[i] = "startConsuming"
  /\ consuming' = [consuming EXCEPT ![i] = consumerChannel[i]]
  /\ ipc' = [ipc EXCEPT ![i] = "done"]
  /\ UNCHANGED <<consumerChannel, timer>>
  /\ UNCHANGED <<ledgerVars, locks, queueVars, boundVars, schedVars, workVars,
                 recVars, histVars, apiVars>>

\* channel.prefetch(1): the most entries a consumer holds unacknowledged.
PREFETCH == 1

\* The entries the consumer of instance i has received and not yet acked,
\* rejected or nacked: the one its callback, or its timer, is holding.
Unacked(i) == IF wpc[i] = "idle" THEN 0 ELSE 1

\* The broker delivers an entry to the consumer of an instance, which holds
\* no unacknowledged entry (prefetch 1).
consume(i) ==
  /\ consuming[i]
  /\ Unacked(i) < PREFETCH
  /\ \E m \in RecordIds :
       /\ queue[m] > 0
       /\ queue' = [queue EXCEPT ![m] = @ - 1]
       /\ wmsg' = [wmsg EXCEPT ![i] = m]
  /\ wpc' = [wpc EXCEPT ![i] = "acquireLock"]
  /\ werr' = [werr EXCEPT ![i] = "null"]
  /\ UNCHANGED <<ledgerVars, locks, dlq, boundVars, schedVars, watt, recVars,
                 histVars, apiVars, connVars>>

\* A processMessage that goes on into the try block whatever acquireLock
\* replied.
processMessageAcquireIgnoresReply(i) ==
  /\ wpc[i] = "acquireLock"
  /\ locks' = acquireLock(locks, ProcessKey(wmsg[i]), i)
  /\ wpc' = [wpc EXCEPT ![i] = "findById"]
  /\ UNCHANGED werr
  /\ UNCHANGED <<ledgerVars, queueVars, boundVars, schedVars, wmsg, watt,
                 recVars, histVars, apiVars, connVars>>

\* processMessage: the processing lock; not acquired throws before the try
\* block, so the callback goes to handleFailure without a release.
processMessageAcquire(i) ==
  /\ wpc[i] = "acquireLock"
  /\ IF lockAcquired(locks, ProcessKey(wmsg[i]))
       THEN /\ locks' = acquireLock(locks, ProcessKey(wmsg[i]), i)
            /\ wpc' = [wpc EXCEPT ![i] = "findById"]
            /\ UNCHANGED werr
       ELSE /\ werr' = [werr EXCEPT
                 ![i] = "Could not acquire processing lock"]
            /\ wpc' = [wpc EXCEPT ![i] = "handleFailure"]
            /\ UNCHANGED locks
  /\ UNCHANGED <<ledgerVars, queueVars, boundVars, schedVars, wmsg, watt,
                 recVars, histVars, apiVars, connVars>>

\* A worker that does not look at the status it read.
processMessageFindByIdAnyStatus(i) ==
  /\ wpc[i] = "findById"
  /\ wpc' = [wpc EXCEPT
       ![i] = IF wmsg[i] \in 1..Len(ledger)
                THEN "sendBirthdayEmail" ELSE "finally"]
  /\ UNCHANGED <<ledgerVars, locks, queueVars, boundVars, schedVars, wmsg,
                 watt, werr, recVars, histVars, apiVars, connVars>>

\* processMessage: findById; a missing or sent row returns through the
\* finally block.
processMessageFindById(i) ==
  /\ wpc[i] = "findById"
  /\ wpc' = [wpc EXCEPT
       ![i] = IF wmsg[i] \in 1..Len(ledger)
                   /\ ledger[wmsg[i]].status # "sent"
                THEN "sendBirthdayEmail" ELSE "finally"]
  /\ UNCHANGED <<ledgerVars, locks, queueVars, boundVars, schedVars, wmsg,
                 watt, werr, recVars, histVars, apiVars, connVars>>

\* What httpClient.post can come to: a response with a status (axios
\* resolves the statuses its validateStatus accepts), an AxiosError of the
\* 30 s timeout, an AxiosError carrying the response of another status, an
\* AxiosError without a response, or an error that is not an AxiosError.
Statuses == {199, 200, 204, 299, 300, 404, 500}
PostOutcomes ==
  [kind : {"response"}, status : Statuses]
    \cup [kind : {"axios"}, code : {"ECONNABORTED"}, status : {0}]
    \cup [kind : {"axios"}, code : {"ERR_BAD_RESPONSE"},
          status : Statuses \ (200..299)]
    \cup [kind : {"axios"}, code : {"ERR_NETWORK"}, status : {0}]
    \cup [kind : {"error"}, status : {0}]

\* A sendMessage that takes every status below 400 as delivered.
sendMessageAcceptsRedirect(r) ==
  IF r.kind = "response"
    THEN (IF r.status >= 200 /\ r.status < 400
            THEN "void" ELSE "Unexpected status code")
  ELSE IF r.kind = "axios"
    THEN (IF r.code = "ECONNABORTED"
            THEN "Email service timeout" ELSE "Email service error")
  ELSE "Network error"

\* EmailService.sendMessage: returns (void) on a status of 200..299, and
\* throws otherwise; the text is the message of the error thrown.
sendMessage(r) ==
  IF r.kind = "response"
    THEN (IF r.status >= 200 /\ r.status < 300
            THEN "void" ELSE "Unexpected status code")
  ELSE IF r.kind = "axios"
    THEN (IF r.code = "ECONNABORTED"
            THEN "Email service timeout" ELSE "Email service error")
  ELSE "Network error"

\* processMessage on the notifier call returning (ok) or throwing.
afterSendBirthdayEmail(i, ok) ==
  /\ calls' = [calls EXCEPT
       ![wmsg[i]] = Append(@, IF ok THEN "ok" ELSE "error")]
  /\ IF ok
       THEN /\ okSends' = [okSends EXCEPT ![wmsg[i]] = @ + 1]
            /\ okAfterPass' = [okAfterPass EXCEPT ![wmsg[i]] =
                 /\ npasses >= 1
                 /\ \A j \in Instances : rpc[j] = "idle"
                 /\ ledger[wmsg[i]].status = "queued"]
            /\ wpc' = [wpc EXCEPT ![i] = "markAsSent"]
            /\ UNCHANGED werr
       ELSE /\ werr' = [werr EXCEPT ![i] = "Failed to send email"]
            /\ wpc' = [wpc EXCEPT ![i] = "finally"]
            /\ UNCHANGED <<okSends, okAfterPass>>
  /\ ncalls' = ncalls + 1
  /\ UNCHANGED <<ledgerVars, locks, queueVars, nscans, nexp, npasses,
                 schedVars, wmsg, watt, recVars, delays, slog, directory,
                 connVars>>

\* processMessage: the notifier call, which returns 2xx or throws.
sendBirthdayEmail(i) ==
  /\ wpc[i] = "sendBirthdayEmail"
  /\ \E ok \in BOOLEAN : afterSendBirthdayEmail(i, ok)
  /\ UNCHANGED <<fargs, fret>>

\* The notifier call returning 2xx.
sendBirthdayEmailReturns(i) ==
  /\ wpc[i] = "sendBirthdayEmail"
  /\ afterSendBirthdayEmail(i, TRUE)
  /\ UNCHANGED <<fargs, fret>>

\* The same call with what the HTTP request came to: sendBirthdayEmail is
\* sendMessage(email, fullName, BIRTHDAY).
sendBirthdayEmailPost(i) ==
  /\ wpc[i] = "sendBirthdayEmail"
  /\ \E r \in PostOutcomes :
       /\ afterSendBirthdayEmail(i, sendMessage(r) = "void")
       /\ fargs' = [fn |-> "sendMessage", post |-> r, by |-> i]
       /\ fret' = sendMessage(r)

\* processMessage: markAsSent after the notifier returned.
processMessageMarkAsSent(i) ==
  /\ wpc[i] = "markAsSent"
  /\ ledger' = markAsSent(ledger, wmsg[i])
  /\ wpc' = [wpc EXCEPT ![i] = "finally"]
  /\ UNCHANGED <<year, locks, queueVars, boundVars, schedVars, wmsg, watt,
                 werr, recVars, histVars, apiVars, connVars>>

\* A processMessage that releases the lock as the last statement of its try
\* block: an error leaves the lock set.
processMessageReleaseInTry(i) ==
  /\ wpc[i] = "finally"
  /\ locks' = IF werr[i] = "null"
                THEN releaseLock(locks, ProcessKey(wmsg[i])) ELSE locks
  /\ IF werr[i] = "null"
       THEN /\ wpc' = [wpc EXCEPT ![i] = "idle"]
            /\ wmsg' = [wmsg EXCEPT ![i] = 0]
       ELSE /\ wpc' = [wpc EXCEPT ![i] = "handleFailure"]
            /\ UNCHANGED wmsg
  /\ UNCHANGED <<ledgerVars, queueVars, boundVars, schedVars, watt, werr,
                 recVars, histVars, apiVars, connVars>>

\* processMessage: the finally block releases the lock; then the callback
\* acks the entry, or goes to handleFailure with the error thrown.
processMessageFinally(i) ==
  /\ wpc[i] = "finally"
  /\ locks' = releaseLock(locks, ProcessKey(wmsg[i]))
  /\ IF werr[i] = "null"
       THEN /\ wpc' = [wpc EXCEPT ![i] = "idle"]
            /\ wmsg' = [wmsg EXCEPT ![i] = 0]
       ELSE /\ wpc' = [wpc EXCEPT ![i] = "handleFailure"]
            /\ UNCHANGED wmsg
  /\ UNCHANGED <<ledgerVars, queueVars, boundVars, schedVars, watt, werr,
                 recVars, histVars, apiVars, connVars>>

\* handleFailure: attempts = message?.attempts || 0, read before the
\* increment.
handleFailureFindById(i) ==
  /\ wpc[i] = "handleFailure"
  /\ watt' = [watt EXCEPT
       ![i] = IF wmsg[i] \in 1..Len(ledger)
                THEN ledger[wmsg[i]].attempts ELSE 0]
  /\ wpc' = [wpc EXCEPT ![i] = "increment"]
  /\ UNCHANGED <<ledgerVars, locks, queueVars, boundVars, schedVars, wmsg,
                 werr, recVars, histVars, apiVars, connVars>>

\* markAsFailed: the increment of attempts.
markAsFailedIncrement(i) ==
  /\ wpc[i] = "increment"
  /\ ledger' = increment(ledger, wmsg[i])
  /\ wpc' = [wpc EXCEPT ![i] = "update"]
  /\ UNCHANGED <<year, locks, queueVars, boundVars, schedVars, wmsg, watt,
                 werr, recVars, histVars, apiVars, connVars>>

\* Whether handleFailure rejects the entry to the dead-letter queue.
maxRetriesReached(attempts) == attempts >= MAX_RETRY_ATTEMPTS

\* markAsFailed: the update of status and lastError; then handleFailure
\* rejects the entry without requeue (dead letter), or sets the timer that
\* will nack it with requeue.
markAsFailedUpdate(i) ==
  /\ wpc[i] = "update"
  /\ ledger' = updateFailed(ledger, wmsg[i], werr[i])
  /\ IF maxRetriesReached(watt[i])
       THEN /\ dlq' = [dlq EXCEPT ![wmsg[i]] = @ + 1]
            /\ wpc' = [wpc EXCEPT ![i] = "idle"]
            /\ wmsg' = [wmsg EXCEPT ![i] = 0]
            /\ UNCHANGED delays
       ELSE /\ delays' = [delays EXCEPT
                 ![wmsg[i]] = Append(@, retryDelay(watt[i]))]
            /\ wpc' = [wpc EXCEPT ![i] = "setTimeout"]
            /\ UNCHANGED <<dlq, wmsg>>
  /\ UNCHANGED <<year, locks, queue, boundVars, schedVars, watt, werr,
                 recVars, okSends, calls, okAfterPass, slog, apiVars, connVars>>

\* The timer of handleFailure fires: nack(msg, false, true) puts the entry
\* back on the queue and frees the consumer.
nackRequeue(i) ==
  /\ wpc[i] = "setTimeout"
  /\ queue' = [queue EXCEPT ![wmsg[i]] = @ + 1]
  /\ wpc' = [wpc EXCEPT ![i] = "idle"]
  /\ wmsg' = [wmsg EXCEPT ![i] = 0]
  /\ UNCHANGED <<ledgerVars, locks, dlq, boundVars, schedVars, watt, werr,
                 recVars, histVars, apiVars, connVars>>

\* processMessage: findById throws (the ledger is unreachable); the finally
\* block runs and the callback goes to handleFailure with the error.
processMessageFindByIdThrows(i) ==
  /\ wpc[i] = "findById"
  /\ werr' = [werr EXCEPT ![i] = "Connection terminated"]
  /\ wpc' = [wpc EXCEPT ![i] = "finally"]
  /\ UNCHANGED <<ledgerVars, locks, queueVars, boundVars, schedVars, wmsg,
                 watt, recVars, histVars, apiVars, connVars>>

\* handleFailure: findById, or the increment or the update of markAsFailed,
\* throws. handleFailure is awaited inside the catch block of the callback
\* with no try around it, so the promise of the callback is rejected with
\* nobody to handle it, and the entry is never acked, rejected or nacked.
handleFailureThrows(i) ==
  /\ wpc[i] \in {"handleFailure", "increment", "update"}
  /\ wpc' = [wpc EXCEPT ![i] = "unhandledRejection"]
  /\ UNCHANGED <<ledgerVars, locks, queueVars, boundVars, schedVars, wmsg,
                 watt, werr, recVars, histVars, apiVars, connVars>>

\* --------------------------------------------------------- RecoveryService
RECURSIVE InIdOrder(_)
\* The ids of a result set as the list the query returns.
InIdOrder(S) ==
  IF S = {} THEN <<>>
  ELSE LET m == CHOOSE x \in S : \A y \in S : x <= y
       IN <<m>> \o InIdOrder(S \ {m})

\* A query for the rows already queued.
getQueuedMessages(L) ==
  InIdOrder({m \in 1..Len(L) :
               L[m].status = "queued" /\ L[m].scheduledFor = "past"})

\* status = pending AND scheduledFor <= now
getPendingMessagesToQueue(L) ==
  InIdOrder({m \in 1..Len(L) :
               L[m].status = "pending" /\ L[m].scheduledFor = "past"})

\* take: limit
Take(s, limit) == SubSeq(s, 1, IF limit < Len(s) THEN limit ELSE Len(s))

\* The default of the limit parameter.
DEFAULT_LIMIT == 100

\* find({ where: { status: failed }, take: limit, order: updatedAt ASC }),
\* then the filter attempts < maxAttempts on the rows found. The table is
\* read in the order of its rows, which stands for the updatedAt order.
getFailedMessagesForRetry(L, maxAttempts, limit) ==
  LET found == Take(InIdOrder({m \in 1..Len(L) : L[m].status = "failed"}),
                    limit)
  IN SelectSeq(found, LAMBDA m : L[m].attempts < maxAttempts)

\* recoverUnsentMessages, lock acquired.
recoverUnsentMessagesRun(i) ==
  /\ rpc[i] = "idle"
  /\ npasses < MaxPasses
  /\ lockAcquired(locks, RecoveryKey)
  /\ locks' = acquireLock(locks, RecoveryKey, i)
  /\ rpc' = [rpc EXCEPT ![i] = "getPending"]
  /\ rrun' = [rrun EXCEPT ![i] = "ran"]
  /\ npasses' = npasses + 1
  /\ UNCHANGED <<ledgerVars, queueVars, nscans, nexp, ncalls, schedVars,
                 workVars, rbatch, histVars, apiVars, connVars>>

\* recoverUnsentMessages, lock not acquired: return before the try block.
recoverUnsentMessagesSkip(i) ==
  /\ rpc[i] = "idle"
  /\ ~lockAcquired(locks, RecoveryKey)
  /\ rrun' = [rrun EXCEPT ![i] = "skipped"]
  /\ UNCHANGED <<ledgerVars, locks, queueVars, boundVars, schedVars,
                 workVars, rpc, rbatch, histVars, apiVars, connVars>>

\* A query of the recovery job throws: the catch of recoverUnsentMessages
\* logs the error, and the finally block is next.
recoveryQueryThrows(i, from) ==
  /\ rpc[i] = from
  /\ rpc' = [rpc EXCEPT ![i] = "finally"]
  /\ rrun' = [rrun EXCEPT ![i] = "caught"]
  /\ UNCHANGED <<ledgerVars, locks, queueVars, boundVars, schedVars,
                 workVars, rbatch, histVars, apiVars, connVars>>

\* message.user of a row the queries load with relations: ['user'].
user(L, m) ==
  IF L[m].userId \in DOMAIN directory THEN L[m].userId ELSE "null"

\* if (!message.user) { warn; continue }
recoverySkipNoUser(i, at) ==
  /\ rpc[i] = at
  /\ rbatch[i] # <<>>
  /\ user(ledger, Head(rbatch[i])) = "null"
  /\ rbatch' = [rbatch EXCEPT ![i] = Tail(rbatch[i])]
  /\ UNCHANGED <<ledgerVars, locks, queueVars, boundVars, schedVars,
                 workVars, rpc, rrun, histVars, apiVars, connVars>>

\* recoverPendingMessages: the query.
recoverPendingMessagesThrows(i) == recoveryQueryThrows(i, "getPending")

recoverPendingMessagesQuery(i) ==
  /\ rpc[i] = "getPending"
  /\ rbatch' = [rbatch EXCEPT ![i] = getPendingMessagesToQueue(ledger)]
  /\ rpc' = [rpc EXCEPT ![i] = "pendingPublish"]
  /\ UNCHANGED <<ledgerVars, locks, queueVars, boundVars, schedVars,
                 workVars, rrun, histVars, apiVars, connVars>>

\* A publish of the recovery job outside any try/catch: the error of a
\* failed publish ends the pass.
recoveryPublishUncaught(i, from, to) ==
  /\ rpc[i] = from
  /\ rbatch[i] # <<>>
  /\ \E channel \in BOOLEAN :
       IF channel
         THEN /\ queue' = publishBirthdayMessage(queue, Head(rbatch[i]))
              /\ rpc' = [rpc EXCEPT ![i] = to]
              /\ UNCHANGED rbatch
         ELSE /\ rbatch' = [rbatch EXCEPT ![i] = <<>>]
              /\ rpc' = [rpc EXCEPT ![i] = "finally"]
              /\ UNCHANGED queue
  /\ UNCHANGED <<ledgerVars, locks, dlq, boundVars, schedVars, workVars,
                 rrun, histVars, apiVars, connVars>>

\* A publish of the recovery job: the entry is queued and markAsQueued is
\* next, or the publish throws, which the loop's catch logs.
recoveryPublish(i, from, to) ==
  /\ rpc[i] = from
  /\ rbatch[i] # <<>>
  /\ \E channel \in BOOLEAN :
       IF channel
         THEN /\ queue' = publishBirthdayMessage(queue, Head(rbatch[i]))
              /\ rpc' = [rpc EXCEPT ![i] = to]
              /\ UNCHANGED rbatch
         ELSE /\ rbatch' = [rbatch EXCEPT ![i] = Tail(rbatch[i])]
              /\ rpc' = [rpc EXCEPT
                   ![i] = IF from = "failedPublish"
                            THEN "resetToPending" ELSE from]
              /\ UNCHANGED queue
  /\ UNCHANGED <<ledgerVars, locks, dlq, boundVars, schedVars, workVars,
                 rrun, histVars, apiVars, connVars>>

\* markAsQueued of the recovery job, or the write throws, which the loop's
\* catch logs; and on to the next row of the batch.
recoveryMarkAsQueued(i, from, to) ==
  /\ rpc[i] = from
  /\ \E db \in BOOLEAN :
       ledger' = IF db THEN markAsQueued(ledger, Head(rbatch[i])) ELSE ledger
  /\ rbatch' = [rbatch EXCEPT ![i] = Tail(rbatch[i])]
  /\ rpc' = [rpc EXCEPT ![i] = to]
  /\ UNCHANGED <<year, locks, queueVars, boundVars, schedVars, workVars,
                 rrun, histVars, apiVars, connVars>>

\* recoverPendingMessages: the loop body, publish then markAsQueued.
recoverPendingMessagesSkip(i) == recoverySkipNoUser(i, "pendingPublish")

recoverPendingMessagesPublish(i) ==
  /\ rbatch[i] # <<>>
  /\ user(ledger, Head(rbatch[i])) # "null"
  /\ recoveryPublish(i, "pendingPublish", "pendingMarkAsQueued")

recoverPendingMessagesMarkAsQueued(i) ==
  recoveryMarkAsQueued(i, "pendingMarkAsQueued", "pendingPublish")

\* retryFailedMessages: the query, once the pending batch is done.
retryFailedMessagesThrows(i) ==
  /\ rbatch[i] = <<>>
  /\ recoveryQueryThrows(i, "pendingPublish")

retryFailedMessagesQuery(i) ==
  /\ rpc[i] = "pendingPublish"
  /\ rbatch[i] = <<>>
  /\ rbatch' = [rbatch EXCEPT
       ![i] = getFailedMessagesForRetry(ledger, MAX_RETRY_ATTEMPTS,
                                        DEFAULT_LIMIT)]
  /\ rpc' = [rpc EXCEPT ![i] = "resetToPending"]
  /\ UNCHANGED <<ledgerVars, locks, queueVars, boundVars, schedVars,
                 workVars, rrun, histVars, apiVars, connVars>>

retryFailedMessagesSkip(i) == recoverySkipNoUser(i, "resetToPending")

\* retryFailedMessages: resetToPending of the next row of the batch, or the
\* write throws, which the loop's catch logs.
retryFailedMessagesReset(i) ==
  /\ rpc[i] = "resetToPending"
  /\ rbatch[i] # <<>>
  /\ user(ledger, Head(rbatch[i])) # "null"
  /\ \E db \in BOOLEAN :
       IF db
         THEN /\ ledger' = resetToPending(ledger, Head(rbatch[i]))
              /\ rpc' = [rpc EXCEPT ![i] = "failedPublish"]
              /\ UNCHANGED rbatch
         ELSE /\ rbatch' = [rbatch EXCEPT ![i] = Tail(rbatch[i])]
              /\ UNCHANGED <<ledger, rpc>>
  /\ UNCHANGED <<year, locks, queueVars, boundVars, schedVars, workVars,
                 rrun, histVars, apiVars, connVars>>

retryFailedMessagesPublish(i) ==
  recoveryPublish(i, "failedPublish", "failedMarkAsQueued")

retryFailedMessagesMarkAsQueued(i) ==
  recoveryMarkAsQueued(i, "failedMarkAsQueued", "resetToPending")

\* recoverUnsentMessages with the release as the last statement of the try
\* block, not in finally.
recoverUnsentMessagesReleaseInTry(i) ==
  /\ \/ rpc[i] = "resetToPending" /\ rbatch[i] = <<>>
     \/ rpc[i] = "finally"
  /\ locks' = IF rpc[i] = "finally"
                THEN locks ELSE releaseLock(locks, RecoveryKey)
  /\ rpc' = [rpc EXCEPT ![i] = "idle"]
  /\ UNCHANGED <<ledgerVars, queueVars, boundVars, schedVars, workVars,
                 rbatch, rrun, histVars, apiVars, connVars>>

\* recoverUnsentMessages: the finally block.
recoverUnsentMessagesFinally(i) ==
  /\ \/ rpc[i] = "resetToPending" /\ rbatch[i] = <<>>
     \/ rpc[i] = "finally"
  /\ locks' = releaseLock(locks, RecoveryKey)
  /\ rpc' = [rpc EXCEPT ![i] = "idle"]
  /\ UNCHANGED <<ledgerVars, queueVars, boundVars, schedVars, workVars,
                 rbatch, rrun, histVars, apiVars, connVars>>

\* ------------------------------------------------------------ initial state
InitScan(users) ==
  /\ ledger = <<>>
  /\ locks = [k \in LockKeys |-> "none"]
  /\ queue = [m \in RecordIds |-> 0]
  /\ dlq = [m \in RecordIds |-> 0]
  /\ year = 2024
  /\ nscans = 0 /\ nexp = 0 /\ npasses = 0 /\ ncalls = 0
  /\ spc = [i \in Instances |-> "idle"]
  /\ stzs = [i \in Instances |-> <<>>]
  /\ susers = [i \in Instances |-> <<>>]
  /\ suser = [i \in Instances |-> "u1"]
  /\ syear = [i \in Instances |-> 2024]
  /\ smsg = [i \in Instances |-> 0]
  /\ screate = [i \in Instances |-> "none"]
  /\ scode = [i \in Instances |-> "none"]
  /\ srun = [i \in Instances |-> "none"]
  /\ wpc = [i \in Instances |-> "idle"]
  /\ wmsg = [i \in Instances |-> 0]
  /\ watt = [i \in Instances |-> 0]
  /\ werr = [i \in Instances |-> "null"]
  /\ rpc = [i \in Instances |-> "idle"]
  /\ rbatch = [i \in Instances |-> <<>>]
  /\ rrun = [i \in Instances |-> "none"]
  /\ okSends = [m \in RecordIds |-> 0]
  /\ calls = [m \in RecordIds |-> <<>>]
  /\ delays = [m \in RecordIds |-> <<>>]
  /\ okAfterPass = [m \in RecordIds |-> FALSE]
  /\ slog = {}
  /\ directory = users
  /\ fargs = NoCall
  /\ fret = "none"
  /\ Connected

\* One user, of Zone/A, has their birthday today.
Init == InitScan("u1" :> "Zone/A")

\* The scheduler of every instance, the leases and the clock, with the
\* users database reachable.
NextScan ==
  \/ \E key \in LockKeys : Expire(key)
  \/ NewYear
  \/ \E i \in Instances : checkBirthdaysRun(i)
  \/ \E i \in Instances : checkBirthdaysSkip(i)
  \/ \E i \in Instances : getTimezonesAtTime(i)
  \/ \E i \in Instances : processBirthdaysForTimezone(i)
  \/ \E i \in Instances : createAndQueueBirthdayMessage(i)
  \/ \E i \in Instances : createBirthdayMessageFindOne(i)
  \/ \E i \in Instances : createBirthdayMessageSave(i)
  \/ \E i \in Instances : schedulerPublish(i)
  \/ \E i \in Instances : schedulerMarkAsQueued(i)
  \/ \E i \in Instances : checkBirthdaysFinally(i)

SpecScan == Init /\ [][NextScan]_vars

\* One tick of the cron: the timer of every instance fires once, at its own
\* moment, and no lease is old enough to run out.
NextTick ==
  \/ \E i \in Instances : srun[i] = "none" /\ checkBirthdaysRun(i)
  \/ \E i \in Instances : srun[i] = "none" /\ checkBirthdaysSkip(i)
  \/ \E i \in Instances : getTimezonesAtTime(i)
  \/ \E i \in Instances : checkBirthdaysThrows(i)
  \/ \E i \in Instances : processBirthdaysForTimezone(i)
  \/ \E i \in Instances : processBirthdaysForTimezoneThrows(i)
  \/ \E i \in Instances : createAndQueueBirthdayMessage(i)
  \/ \E i \in Instances : createBirthdayMessageFindOne(i)
  \/ \E i \in Instances : createBirthdayMessageSave(i)
  \/ \E i \in Instances : schedulerPublish(i)
  \/ \E i \in Instances : schedulerMarkAsQueued(i)
  \/ \E i \in Instances : checkBirthdaysFinally(i)

SpecTick == Init /\ [][NextTick]_vars

\* Two users have their birthday today, one in each of the two zones that
\* read 09:00 in the same minute.
InitZones == InitScan(("u1" :> "Zone/A") @@ ("u2" :> "Zone/B"))

SpecZones == InitZones /\ [][NextTick]_vars

\* The state a scan leaves behind for a recipient: the row, the per-user
\* lock (kept for its 24 h lease, so gone a year later), and the entry on
\* the queue.
InitRow(status, attempts, lastError, scheduledFor) ==
  [userId |-> "u1", year |-> 2024, status |-> status, attempts |-> attempts,
   lastError |-> lastError, sentAt |-> FALSE, scheduledFor |-> scheduledFor]

InitStore(rows, now, entries, outcomes, waits) ==
  /\ ledger = rows
  /\ locks = [k \in LockKeys |->
               IF k = UserKey("u1", now) /\ rows[1].year = now
                 THEN "i1" ELSE "none"]
  /\ queue = [m \in RecordIds |-> IF m <= Len(rows) THEN entries[m] ELSE 0]
  /\ dlq = [m \in RecordIds |-> 0]
  /\ year = now
  /\ nscans = 1 /\ nexp = 0 /\ npasses = 0 /\ ncalls = 0
  /\ spc = [i \in Instances |-> "idle"]
  /\ stzs = [i \in Instances |-> <<>>]
  /\ susers = [i \in Instances |-> <<>>]
  /\ suser = [i \in Instances |-> "u1"]
  /\ syear = [i \in Instances |-> 2024]
  /\ smsg = [i \in Instances |-> IF i = "i1" THEN 1 ELSE 0]
  /\ screate = [i \in Instances |-> IF i = "i1" THEN "created" ELSE "none"]
  /\ scode = [i \in Instances |-> "none"]
  /\ srun = [i \in Instances |-> IF i = "i1" THEN "ran" ELSE "none"]
  /\ wpc = [i \in Instances |-> "idle"]
  /\ wmsg = [i \in Instances |-> 0]
  /\ watt = [i \in Instances |-> 0]
  /\ werr = [i \in Instances |-> "null"]
  /\ rpc = [i \in Instances |-> "idle"]
  /\ rbatch = [i \in Instances |-> <<>>]
  /\ rrun = [i \in Instances |-> "none"]
  /\ okSends = [m \in RecordIds |-> 0]
  /\ calls = [m \in RecordIds |->
                IF m <= Len(rows) THEN outcomes[m] ELSE <<>>]
  /\ delays = [m \in RecordIds |-> IF m <= Len(rows) THEN waits[m] ELSE <<>>]
  /\ okAfterPass = [m \in RecordIds |-> FALSE]
  /\ slog = {}
  /\ directory = ("u1" :> "Zone/A")
  /\ fargs = NoCall
  /\ fret = "none"

\* The same with the consumer of every instance connected and consuming.
InitLedger(rows, now, entries, outcomes, waits) ==
  /\ InitStore(rows, now, entries, outcomes, waits)
  /\ Connected

InitAfterScan(row, entries, outcomes, waits) ==
  InitLedger(<<row>>, 2024, <<entries>>, <<outcomes>>, <<waits>>)

\* A row the scheduler created, published and marked queued.
InitQueued ==
  InitAfterScan(InitRow("queued", 0, "null", "past"), 1, <<>>, <<>>)

\* A row whose publish failed in the scheduler: pending, with no entry; in
\* TEST_MODE its scheduledFor may still be ahead.
InitPending ==
  InitAfterScan(InitRow("pending", 0, "null", "future"), 0, <<>>, <<>>)

\* A row the notifier failed twice, its entry back on the queue after the
\* second nack.
InitFailed ==
  InitAfterScan(InitRow("failed", 2, "Failed to send email", "past"), 1,
                <<"error", "error">>, <<1000, 5000>>)

\* An entry whose row is gone: the recipient was deleted, and the row with
\* it (onDelete CASCADE), after the entry was published.
InitOrphan ==
  /\ ledger = <<>>
  /\ locks = [k \in LockKeys |-> "none"]
  /\ queue = [m \in RecordIds |-> IF m = 1 THEN 1 ELSE 0]
  /\ dlq = [m \in RecordIds |-> 0]
  /\ year = 2024
  /\ nscans = 1 /\ nexp = 0 /\ npasses = 0 /\ ncalls = 0
  /\ spc = [i \in Instances |-> "idle"]
  /\ stzs = [i \in Instances |-> <<>>]
  /\ susers = [i \in Instances |-> <<>>]
  /\ suser = [i \in Instances |-> "u1"]
  /\ syear = [i \in Instances |-> 2024]
  /\ smsg = [i \in Instances |-> 0]
  /\ screate = [i \in Instances |-> "none"]
  /\ scode = [i \in Instances |-> "none"]
  /\ srun = [i \in Instances |-> "none"]
  /\ wpc = [i \in Instances |-> "idle"]
  /\ wmsg = [i \in Instances |-> 0]
  /\ watt = [i \in Instances |-> 0]
  /\ werr = [i \in Instances |-> "null"]
  /\ rpc = [i \in Instances |-> "idle"]
  /\ rbatch = [i \in Instances |-> <<>>]
  /\ rrun = [i \in Instances |-> "none"]
  /\ okSends = [m \in RecordIds |-> 0]
  /\ calls = [m \in RecordIds |-> <<>>]
  /\ delays = [m \in RecordIds |-> <<>>]
  /\ okAfterPass = [m \in RecordIds |-> FALSE]
  /\ slog = {}
  /\ directory = ("u1" :> "Zone/A")
  /\ fargs = NoCall
  /\ fret = "none"
  /\ Connected

\* A pending row, its publish failed in the scheduler, whose user relation
\* does not load.
InitNoUser ==
  InitAfterScan([InitRow("pending", 0, "null", "past") EXCEPT !.userId = "u0"],
                0, <<>>, <<>>)

\* Last year's row and this year's, both left behind the same way; the
\* user relation of the older one may not load.
InitBatch(status, attempts, lastError, entries, outcomes, waits) ==
  \E u \in {"u0", "u1"} :
    InitLedger(<<[InitRow(status, attempts, lastError, "past")
                   EXCEPT !.userId = u],
                 [InitRow(status, attempts, lastError, "past")
                   EXCEPT !.year = 2025]>>,
               2025, <<entries, entries>>, <<outcomes, outcomes>>,
               <<waits, waits>>)

\* Two rows whose publish failed in the scheduler.
InitPendingBatch == InitBatch("pending", 0, "null", 0, <<>>, <<>>)

\* Two rows the notifier failed once, their entries back on the queue.
InitFailedBatch ==
  InitBatch("failed", 1, "Failed to send email", 1, <<"error">>, <<1000>>)

\* The consumer callback of an instance but for the notifier call.
Consumer(i) ==
  \/ consume(i)
  \/ processMessageAcquire(i)
  \/ processMessageFindById(i)
  \/ processMessageMarkAsSent(i)
  \/ processMessageFinally(i)
  \/ handleFailureFindById(i)
  \/ markAsFailedIncrement(i)
  \/ markAsFailedUpdate(i)
  \/ nackRequeue(i)

\* The recovery job of an instance.
Recovery(i) ==
  \/ recoverUnsentMessagesRun(i)
  \/ recoverUnsentMessagesSkip(i)
  \/ recoverPendingMessagesThrows(i)
  \/ recoverPendingMessagesQuery(i)
  \/ recoverPendingMessagesSkip(i)
  \/ recoverPendingMessagesPublish(i)
  \/ recoverPendingMessagesMarkAsQueued(i)
  \/ retryFailedMessagesThrows(i)
  \/ retryFailedMessagesQuery(i)
  \/ retryFailedMessagesSkip(i)
  \/ retryFailedMessagesReset(i)
  \/ retryFailedMessagesPublish(i)
  \/ retryFailedMessagesMarkAsQueued(i)
  \/ recoverUnsentMessagesFinally(i)

NextRetry ==
  \/ \E i \in Instances : Consumer(i)
  \/ \E i \in Instances : sendBirthdayEmail(i)

\* The consumers working on the one queue entry of a record, until it is
\* acknowledged or dead-lettered.
SpecRetry == InitQueued /\ [][NextRetry]_vars

\* The consumers on the entry of a record while the ledger may be
\* unreachable.
NextOutage ==
  \/ \E i \in Instances : Consumer(i)
  \/ \E i \in Instances : sendBirthdayEmail(i)
  \/ \E i \in Instances : processMessageFindByIdThrows(i)
  \/ \E i \in Instances : handleFailureThrows(i)

SpecOutage == InitQueued /\ [][NextOutage]_vars

\* A row with two entries on the queue (the scheduler's and the one a
\* recovery pass published for it), which the notifier failed four times,
\* or an entry whose row is gone.
InitDuplicate ==
  \/ InitAfterScan(InitRow("failed", 4, "Failed to send email", "past"), 2,
                   <<"error", "error", "error", "error">>,
                   <<1000, 5000, 15000, 60000>>)
  \/ InitOrphan

\* The consumers of both instances on these entries, with the ledger
\* reachable or not.
NextProcess ==
  \/ \E i \in Instances : Consumer(i)
  \/ \E i \in Instances : sendBirthdayEmail(i)
  \/ \E i \in Instances :
       /\ wpc[i] = "findById"
       /\ Len(delays[wmsg[i]]) < MaxRedeliveries
       /\ processMessageFindByIdThrows(i)
  \/ \E i \in Instances : handleFailureThrows(i)

SpecProcess == InitDuplicate /\ [][NextProcess]_vars

\* The consumers on the entry of a record, with the HTTP outcome of every
\* notifier call.
NextNotifier ==
  \/ \E i \in Instances : Consumer(i)
  \/ \E i \in Instances : sendBirthdayEmailPost(i)

SpecNotifier == InitQueued /\ [][NextNotifier]_vars

NextWork ==
  \/ \E i \in Instances : Consumer(i)
  \/ \E i \in Instances : ncalls < MaxCalls /\ sendBirthdayEmail(i)
  \/ \E i \in Instances : Recovery(i)
  \/ \E m \in RecordIds : TimePasses(m)

\* The consumers and the recovery job of every instance; no lease runs out
\* and no process stops.
SpecWork ==
  (InitQueued \/ InitPending \/ InitFailed \/ InitOrphan \/ InitNoUser)
    /\ [][NextWork]_vars

\* Nothing in the pipeline runs: the state a single call is made in.
InitCall(table, leases, users) ==
  /\ ledger = table
  /\ locks = leases
  /\ queue = [m \in RecordIds |-> 0]
  /\ dlq = [m \in RecordIds |-> 0]
  /\ year = 2024
  /\ nscans = 0 /\ nexp = 0 /\ npasses = 0 /\ ncalls = 0
  /\ spc = [i \in Instances |-> "idle"]
  /\ stzs = [i \in Instances |-> <<>>]
  /\ susers = [i \in Instances |-> <<>>]
  /\ suser = [i \in Instances |-> "u1"]
  /\ syear = [i \in Instances |-> 2024]
  /\ smsg = [i \in Instances |-> 0]
  /\ screate = [i \in Instances |-> "none"]
  /\ scode = [i \in Instances |-> "none"]
  /\ srun = [i \in Instances |-> "none"]
  /\ wpc = [i \in Instances |-> "idle"]
  /\ wmsg = [i \in Instances |-> 0]
  /\ watt = [i \in Instances |-> 0]
  /\ werr = [i \in Instances |-> "null"]
  /\ rpc = [i \in Instances |-> "idle"]
  /\ rbatch = [i \in Instances |-> <<>>]
  /\ rrun = [i \in Instances |-> "none"]
  /\ okSends = [m \in RecordIds |-> 0]
  /\ calls = [m \in RecordIds |-> <<>>]
  /\ delays = [m \in RecordIds |-> <<>>]
  /\ okAfterPass = [m \in RecordIds |-> FALSE]
  /\ slog = {}
  /\ directory = users
  /\ fargs = NoCall
  /\ fret = "none"
  /\ Connected

\* What a call from outside leaves alone beside the tables it works on.
pipelineVars ==
  <<queueVars, year, boundVars, schedVars, workVars, recVars, histVars,
    connVars>>

\* ---------------------------------- BirthdayService.getFailedMessagesForRetry
\* Rows of the table, and the largest limit asked for.
MaxTable == 3
MaxLimit == 3

\* What a row may read after the consumers ran: queued, sent after four
\* failures, failed below the ceiling, at the ceiling, and dead-lettered.
QueryRows ==
  {InitRow("queued", 0, "null", "past"),
   [InitRow("sent", 4, "Failed to send email", "past") EXCEPT !.sentAt = TRUE],
   InitRow("failed", 4, "Failed to send email", "past"),
   InitRow("failed", 5, "Failed to send email", "past"),
   InitRow("failed", 6, "Failed to send email", "past")}

\* The (user, year) of the rows of a table: no two alike.
QueryKeys == <<<<"u1", 2024>>, <<"u2", 2024>>, <<"u1", 2025>>>>

\* Tables of up to MaxTable rows, oldest-updated first.
InitFailedQuery ==
  \E k \in 1..MaxTable :
    \E rows \in [1..k -> QueryRows] :
      InitCall([m \in 1..k |-> [rows[m] EXCEPT !.userId = QueryKeys[m][1],
                                               !.year = QueryKeys[m][2]]],
               [key \in LockKeys |-> "none"],
               ("u1" :> "Zone/A" @@ "u2" :> "Zone/A"))

\* A call of getFailedMessagesForRetry(maxAttempts, limit).
getFailedMessagesForRetryCall ==
  /\ fargs = NoCall
  /\ \E limit \in 0..MaxLimit :
       /\ fargs' = [fn |-> "getFailedMessagesForRetry",
                    maxAttempts |-> MAX_RETRY_ATTEMPTS, limit |-> limit]
       /\ fret' = getFailedMessagesForRetry(ledger, MAX_RETRY_ATTEMPTS, limit)
  /\ UNCHANGED <<ledger, locks, directory, pipelineVars>>

SpecFailedQuery == InitFailedQuery /\ [][getFailedMessagesForRetryCall]_vars

\* ------------------------------------------------------ after a downtime
\* Every instance was down in the minute Zone/A read 09:00 on this year's
\* birthday of u1: the table holds last year's row of u1 and none for this
\* year.
InitRestart ==
  \/ InitLedger(<<InitRow("queued", 0, "null", "past")>>, 2025,
                <<1>>, <<<<>>>>, <<<<>>>>)
  \/ InitLedger(<<InitRow("pending", 0, "null", "past")>>, 2025,
                <<0>>, <<<<>>>>, <<<<>>>>)
  \/ InitLedger(<<InitRow("failed", 2, "Failed to send email", "past")>>, 2025,
                <<1>>, <<<<"error", "error">>>>, <<<<1000, 5000>>>>)

\* One instance is started again on the birthday, after 09:00 of Zone/A:
\* its scheduler ticks read no zone at 09:00 (at the next 09:00 of Zone/A
\* the local date is no longer the birthday), and its recovery job and
\* its consumer run.
NextRestart ==
  \/ checkBirthdaysRun("i1")
  \/ getTimezonesAtTime("i1") /\ stzs'["i1"] = <<>>
  \/ checkBirthdaysFinally("i1")
  \/ Consumer("i1")
  \/ ncalls < MaxCalls /\ sendBirthdayEmail("i1")
  \/ recoverUnsentMessagesRun("i1")
  \/ recoverPendingMessagesThrows("i1")
  \/ recoverPendingMessagesQuery("i1")
  \/ recoverPendingMessagesPublish("i1")
  \/ recoverPendingMessagesMarkAsQueued("i1")
  \/ retryFailedMessagesThrows("i1")
  \/ retryFailedMessagesQuery("i1")
  \/ retryFailedMessagesReset("i1")
  \/ retryFailedMessagesPublish("i1")
  \/ retryFailedMessagesMarkAsQueued("i1")
  \/ recoverUnsentMessagesFinally("i1")

SpecRestart == InitRestart /\ [][NextRestart]_vars

\* ------------------------------------------- the start of the consumers
\* The instances start while the durable queue holds the entry of a queued
\* row: onModuleInit of each consumer service has yet to run.
InitStarting ==
  /\ InitStore(<<InitRow("queued", 0, "null", "past")>>, 2024, <<1>>,
               <<<<>>>>, <<<<>>>>)
  /\ consumerChannel = [i \in Instances |-> FALSE]
  /\ consuming = [i \in Instances |-> FALSE]
  /\ ipc = [i \in Instances |-> "connect"]
  /\ timer = [i \in Instances |-> FALSE]

NextConnect ==
  \/ \E i \in Instances : onModuleInitConnect(i)
  \/ \E i \in Instances : startConsuming(i)
  \/ \E i \in Instances : connectRetry(i)
  \/ \E i \in Instances : Consumer(i)
  \/ \E i \in Instances : sendBirthdayEmail(i)

SpecConnect == InitStarting /\ [][NextConnect]_vars

\* The event loop of every instance runs each callback that is ready and
\* fires each timer that is set (weak fairness of the steps of onModuleInit
\* and of the consumer); the broker is reachable in the end and the notifier
\* answers 2xx in the end (strong fairness of the connect that succeeds and
\* of the call that returns).
FairConnect ==
  \A i \in Instances :
    /\ WF_vars(onModuleInitConnect(i))
    /\ WF_vars(startConsuming(i))
    /\ WF_vars(Consumer(i))
    /\ SF_vars(connectAgain(i, "connected"))
    /\ SF_vars(sendBirthdayEmailReturns(i))

SpecConnectFair == InitStarting /\ [][NextConnect]_vars /\ FairConnect

\* ------------------------------------------ a tick and the recovery job
\* The 09:00 tick of instance i1 and the recovery job of every instance,
\* with no consumer connected: the entries published stay on the queue.
NextRepublish ==
  \/ srun["i1"] = "none" /\ checkBirthdaysRun("i1")
  \/ getTimezonesAtTime("i1")
  \/ processBirthdaysForTimezone("i1")
  \/ createAndQueueBirthdayMessage("i1")
  \/ createBirthdayMessageFindOne("i1")
  \/ createBirthdayMessageSave("i1")
  \/ schedulerPublish("i1")
  \/ schedulerMarkAsQueued("i1")
  \/ checkBirthdaysFinally("i1")
  \/ \E i \in Instances : recoverUnsentMessagesRun(i)
  \/ \E i \in Instances : recoverUnsentMessagesSkip(i)
  \/ \E i \in Instances : recoverPendingMessagesThrows(i)
  \/ \E i \in Instances : recoverPendingMessagesQuery(i)
  \/ \E i \in Instances : recoverPendingMessagesPublish(i)
  \/ \E i \in Instances : recoverPendingMessagesMarkAsQueued(i)
  \/ \E i \in Instances : retryFailedMessagesThrows(i)
  \/ \E i \in Instances : retryFailedMessagesQuery(i)
  \/ \E i \in Instances : recoverUnsentMessagesFinally(i)

SpecRepublish == Init /\ [][NextRepublish]_vars

\* --------------------------------------------- a tick and what follows it
\* Two users of Zone/A have their birthday today.
InitSameZone == InitScan(("u1" :> "Zone/A") @@ ("u2" :> "Zone/A"))

\* One instance: its tick of the 09:00 minute of Zone/A, the ticks of the
\* minutes after it (which read no zone at 09:00), its consumer and its
\* recovery job.
NextMissed ==
  \/ checkBirthdaysRun("i1")
  \/ /\ getTimezonesAtTime("i1")
     /\ (stzs'["i1"] # <<>>) <=> (nscans = 1)
  \/ processBirthdaysForTimezone("i1")
  \/ processBirthdaysForTimezoneThrows("i1")
  \/ createAndQueueBirthdayMessage("i1")
  \/ createBirthdayMessageFindOne("i1")
  \/ createBirthdayMessageSave("i1")
  \/ schedulerPublish("i1")
  \/ schedulerMarkAsQueued("i1")
  \/ checkBirthdaysFinally("i1")
  \/ Consumer("i1")
  \/ ncalls < MaxCalls /\ sendBirthdayEmail("i1")
  \/ recoverUnsentMessagesRun("i1")
  \/ recoverPendingMessagesThrows("i1")
  \/ recoverPendingMessagesQuery("i1")
  \/ recoverPendingMessagesPublish("i1")
  \/ recoverPendingMessagesMarkAsQueued("i1")
  \/ retryFailedMessagesThrows("i1")
  \/ retryFailedMessagesQuery("i1")
  \/ retryFailedMessagesReset("i1")
  \/ retryFailedMessagesPublish("i1")
  \/ retryFailedMessagesMarkAsQueued("i1")
  \/ recoverUnsentMessagesFinally("i1")

SpecMissed == InitSameZone /\ [][NextMissed]_vars

\* ------------------------------------------------------------ the calendar
\* The calendar years the date checks range over: 2023 is a common year,
\* 2024 a leap year.
FirstYear == 2023
MaxYear == 2024

IsLeap(y) == (y % 4 = 0 /\ y % 100 # 0) \/ y % 400 = 0

DaysInMonth(y, m) ==
  IF m = 2 THEN (IF IsLeap(y) THEN 29 ELSE 28)
  ELSE IF m \in {4, 6, 9, 11} THEN 30 ELSE 31

\* The calendar dates of a range of years.
Dates(years) ==
  {dt \in [y : years, m : 1..12, d : 1..31] : dt.d <= DaysInMonth(dt.y, dt.m)}

NextDay(dt) ==
  IF dt.d < DaysInMonth(dt.y, dt.m) THEN [dt EXCEPT !.d = @ + 1]
  ELSE IF dt.m < 12 THEN [y |-> dt.y, m |-> dt.m + 1, d |-> 1]
  ELSE [y |-> dt.y + 1, m |-> 1, d |-> 1]

PrevDay(dt) ==
  IF dt.d > 1 THEN [dt EXCEPT !.d = @ - 1]
  ELSE IF dt.m > 1
    THEN [y |-> dt.y, m |-> dt.m - 1, d |-> DaysInMonth(dt.y, dt.m - 1)]
  ELSE [y |-> dt.y - 1, m |-> 12, d |-> 31]

\* An instant is a date and an hour, read in UTC or on the clock of a zone.
\* The reading of the clock `offset` hours ahead of the one given.
Shift(t, offset) ==
  LET h == t.hour + offset
  IN IF h < 0 THEN [date |-> PrevDay(t.date), hour |-> h + 24]
     ELSE IF h >= 24 THEN [date |-> NextDay(t.date), hour |-> h - 24]
     ELSE [date |-> t.date, hour |-> h]

\* The UTC offsets, in hours, of the zones tried for the recipient and for
\* the server: Pacific/Honolulu, UTC, Pacific/Kiritimati.
Offsets == {-10, 0, 14}

\* -------------------------------- UsersService.findUsersWithBirthdayInTimezones
\* .where('user.birthdayMonth = :month').andWhere('user.birthdayDay = :day'):
\* the users of the table whose stored month and day are the ones asked
\* for, with their timezones.
BirthdayUsers(table, month, day) ==
  [u \in {v \in DOMAIN table : /\ table[v].birthdayMonth = month
                               /\ table[v].birthdayDay = day}
     |-> table[u].timezone]

\* The stored birthdays tried: the last days of February and the day after.
Birthdays == {<<2, 28>>, <<2, 29>>, <<3, 1>>}

InitBirthdayQuery ==
  InitCall(<<>>, [key \in LockKeys |-> "none"], <<>>)

\* processBirthdaysForTimezone for Zone/A on a local date: month and day of
\* the date are handed to findUsersWithBirthdayInTimezones.
findUsersWithBirthdayInTimezonesCall ==
  /\ fargs = NoCall
  /\ \E today \in Dates(FirstYear..MaxYear), bd \in Birthdays :
       LET table == "u1" :> [birthdayMonth |-> bd[1], birthdayDay |-> bd[2],
                             timezone |-> "Zone/A"]
       IN /\ directory' = BirthdayUsers(table, today.m, today.d)
          /\ fargs' = [fn |-> "findUsersWithBirthdayInTimezones",
                       users |-> table, today |-> today,
                       timezones |-> <<"Zone/A">>]
          /\ fret' = findUsersWithBirthdayInTimezones(directory', "Zone/A")
  /\ UNCHANGED <<ledger, locks, pipelineVars>>

SpecBirthdayQuery ==
  InitBirthdayQuery /\ [][findUsersWithBirthdayInTimezonesCall]_vars

\* ----------------------------------------- the year of a record and its lock
\* moment.tz(timezone).hour(9).minute(0).second(0).toDate(): 09:00 of the
\* zone's current date, as a UTC instant.
scheduledFor(now, zone) ==
  Shift([date |-> Shift(now, zone).date, hour |-> 9], 0 - zone)

\* Date.prototype.getFullYear: the year on the clock of the server.
getFullYear(t, server) == Shift(t, server).date.y

InitYear == InitCall(<<>>, [key \in LockKeys |-> "none"], <<>>)

\* createAndQueueBirthdayMessage in the tick of the minute the recipient's
\* zone reads 09:00 on a date: the year of the lock key, scheduledFor, and
\* the year createBirthdayMessage gives the row.
createAndQueueBirthdayMessageCall ==
  /\ fargs = NoCall
  /\ \E today \in Dates(FirstYear..MaxYear), zone \in Offsets,
        server \in Offsets :
       LET now == Shift([date |-> today, hour |-> 9], 0 - zone)
       IN /\ fargs' = [fn |-> "createAndQueueBirthdayMessage", now |-> now,
                       zone |-> zone, server |-> server]
          /\ fret' = [lockYear |-> getFullYear(now, server),
                      scheduledFor |-> scheduledFor(now, zone),
                      year |-> getFullYear(scheduledFor(now, zone), server)]
  /\ UNCHANGED <<ledger, locks, directory, pipelineVars>>

SpecYear == InitYear /\ [][createAndQueueBirthdayMessageCall]_vars

\* ------------------------------------------------------ UsersService.create
\* new Date('YYYY-MM-DD'): a date-only string is midnight UTC of that date.
parseDate(birthday) == [date |-> birthday, hour |-> 0]

\* getMonth() + 1 and getDate(): read on the clock of the server.
getMonth(t, server) == Shift(t, server).date.m - 1
getDate(t, server) == Shift(t, server).date.d

\* The birthdayMonth and birthdayDay that create and update store.
birthdayIndex(birthday, server) ==
  LET birthdayDate == parseDate(birthday)
  IN [birthdayMonth |-> getMonth(birthdayDate, server) + 1,
      birthdayDay |-> getDate(birthdayDate, server)]

InitUsers == InitCall(<<>>, [key \in LockKeys |-> "none"], <<>>)

\* UsersService.create with a birthday string, on a server of some zone.
create ==
  /\ fargs = NoCall
  /\ \E birthday \in Dates(FirstYear..MaxYear), server \in Offsets :
       /\ fargs' = [fn |-> "create", birthday |-> birthday,
                    server |-> server]
       /\ fret' = birthdayIndex(birthday, server)
  /\ UNCHANGED <<ledger, locks, directory, pipelineVars>>

\* UsersService.update with a birthday string: the same computation.
updateUser ==
  /\ fargs = NoCall
  /\ \E birthday \in Dates(FirstYear..MaxYear), server \in Offsets :
       /\ fargs' = [fn |-> "update", birthday |-> birthday,
                    server |-> server]
       /\ fret' = birthdayIndex(birthday, server)
  /\ UNCHANGED <<ledger, locks, directory, pipelineVars>>

SpecUsers == InitUsers /\ [][create \/ updateUser]_vars

\* ------------------------------------------------- LockService.acquireLock
\* The keys the callers compete for.
CallKeys == {SchedulerKey, RecoveryKey, ProcessKey(1)}

InitLock ==
  /\ InitCall(<<>>, [key \in LockKeys |-> "none"], ("u1" :> "Zone/A"))

\* What acquireLock returned to each instance for each key during the
\* present lease of the key, "none" when it has not called.
Returned == IF fargs = NoCall
              THEN [i \in Instances |-> [key \in CallKeys |-> "none"]]
              ELSE fret

\* acquireLock(key, ttl) by an instance: one SET key value EX ttl NX.
acquireLockCall(i, key) ==
  /\ Returned[i][key] = "none"
  /\ locks' = acquireLock(locks, key, i)
  /\ fargs' = [fn |-> "acquireLock", key |-> key, by |-> i]
  /\ fret' = [Returned EXCEPT
       ![i][key] = IF lockAcquired(locks, key) THEN "true" ELSE "false"]
  /\ UNCHANGED <<ledger, directory, pipelineVars>>

\* The lease of a key ends: releaseLock (DEL) or the EX ttl running out.
leaseEnds(key) ==
  /\ locks[key] # "none"
  /\ locks' = releaseLock(locks, key)
  /\ fargs' = [fn |-> "releaseLock", key |-> key, by |-> locks[key]]
  /\ fret' = [i \in Instances |-> [Returned[i] EXCEPT ![key] = "none"]]
  /\ UNCHANGED <<ledger, directory, pipelineVars>>

NextLock ==
  \/ \E i \in Instances, key \in CallKeys : acquireLockCall(i, key)
  \/ \E key \in CallKeys : leaseEnds(key)

SpecLock == InitLock /\ [][NextLock]_vars

NextRecovery == \E i \in Instances : Recovery(i)

\* The recovery job of every instance over a batch of two rows; no consumer
\* runs and no lease runs out.
SpecRecovery == (InitPendingBatch \/ InitFailedBatch) /\ [][NextRecovery]_vars

\* ------------------------------------------------------------------ claims
Rows == 1..Len(ledger)

\* C1: the ledger holds at most one row per (recipient, year), and so at
\* most one sent row per (recipient, year), whatever the interleaving of
\* the schedulers inside createBirthdayMessage.
C1_OneRecordPerUserYear ==
  /\ \A a, b \in Rows :
       (ledger[a].userId = ledger[b].userId /\ ledger[a].year = ledger[b].year)
         => a = b
  /\ \A u \in Users, y \in Years :
       Cardinality({m \in Rows : /\ ledger[m].userId = u
                                 /\ ledger[m].year = y
                                 /\ ledger[m].status = "sent"}) <= 1

\* Two schedulers were inside createBirthdayMessage for the same recipient
\* and year: one inserted the row, the other's insert was refused.
C1_RaceLost ==
  \E i, j \in Instances :
    /\ i # j
    /\ scode[i] = "23505"
    /\ screate[j] = "created"
    /\ suser[i] = suser[j] /\ syear[i] = syear[j]
    /\ Cardinality({m \in Rows : ledger[m].userId = suser[i]
                                 /\ ledger[m].year = syear[i]}) = 1

\* C2: the notifier returns success at most once for a record (checked
\* where no lease runs out and no process stops).
C2_NotifiedAtMostOnce == \A m \in RecordIds : okSends[m] <= 1

\* C3: a createBirthdayMessage call that finds the row of its (recipient,
\* year) returns null and leaves ledger and queue as they are, and the
\* scheduler publishes only for a row its own call created.
C3_CreateIdempotent ==
  /\ [][\A i \in Instances :
          (/\ spc[i] = "findOne"
           /\ spc'[i] # "findOne"
           /\ existing(ledger, suser[i], year))
            => /\ screate'[i] = "null"
               /\ spc'[i] = "user"
               /\ ledger' = ledger
               /\ queue' = queue]_vars
  /\ [](\A i \in Instances : spc[i] = "publish" => screate[i] = "created")

\* A later scan found the row of the first and created nothing.
C3_SecondScanFoundRow ==
  \E i \in Instances :
    /\ nscans >= 2
    /\ screate[i] = "null" /\ scode[i] = "none"
    /\ spc[i] = "user"
    /\ existing(ledger, suser[i], syear[i])

\* C4: a save refused with 23505 returns null, with no exception and no new
\* row; a save failing otherwise throws to the caller.
C4_DuplicateIsNull ==
  [][\A i \in Instances :
       (spc[i] = "save" /\ spc'[i] # "save")
         => /\ scode'[i] = "23505"
                 => /\ screate'[i] = "null"
                    /\ spc'[i] = "user"
                    /\ ledger' = ledger
            /\ scode'[i] = "other"
                 => /\ screate'[i] = "threw"
                    /\ spc'[i] = "tz"
                    /\ ledger' = ledger
            /\ UniqueViolation(ledger, suser[i], syear[i])
                 => ledger' = ledger /\ scode'[i] # "none"]_vars

\* The loser of a race got null and went on to the next user.
C4_LoserGotNull ==
  \E i \in Instances :
    /\ scode[i] = "23505" /\ screate[i] = "null"
    /\ spc[i] \in {"user", "tz", "release", "idle"}
    /\ Len(ledger) = 1

\* C5: once a record has failed five times it is dead-lettered: with the
\* fifth failure recorded, its entry is on the dead-letter queue, none is
\* queued or held for redelivery, and the row reads attempts 5 with an error.
C5_DeadLetteredAtFifth ==
  \A m \in Rows :
    (/\ ledger[m].attempts >= MAX_RETRY_ATTEMPTS
     /\ \A i \in Instances : wmsg[i] = m => wpc[i] = "setTimeout")
      => /\ ledger[m].attempts = MAX_RETRY_ATTEMPTS
         /\ ledger[m].lastError # "null"
         /\ dlq[m] = 1
         /\ queue[m] = 0
         /\ \A i \in Instances : wmsg[i] # m

\* C6: a record whose notifier calls were error, error, error, ok has
\* attempts 3 and the delays 1s, 5s, 15s, and is sent once the callback of
\* the fourth call is over.
C6_ThreeFailuresThenSent ==
  \A m \in Rows :
    calls[m] = <<"error", "error", "error", "ok">>
      => /\ ledger[m].attempts = 3
         /\ delays[m] = <<1000, 5000, 15000>>
         /\ (\A i \in Instances : wmsg[i] # m)
              => /\ ledger[m].status = "sent"
                 /\ ledger[m].sentAt
                 /\ queue[m] = 0 /\ dlq[m] = 0

C6_FourthCallSent ==
  /\ calls[1] = <<"error", "error", "error", "ok">>
  /\ \A i \in Instances : wmsg[i] # 1
  /\ ledger[1].status = "sent"

\* Nothing is left to do for record m: no entry on the queue, no worker
\* holding one, no recovery job running.
Settled(m) ==
  /\ queue[m] = 0
  /\ \A i \in Instances : wmsg[i] # m /\ rpc[i] = "idle"

\* C7: a record that was pending, that a recovery pass published and left
\* queued, and whose one notifier call succeeded, reads sent once its entry
\* is settled.
C7_PendingRecoveredIsSent ==
  \A m \in Rows :
    (/\ npasses >= 1
     /\ calls[m] = <<"ok">>
     /\ ledger[m].attempts = 0
     /\ Settled(m))
      => ledger[m].status = "sent"

\* C8: for the record that had failed twice, once a recovery pass has left
\* it queued and a notifier call made after that pass succeeded, the attempt
\* count is still 2, and the row reads sent once its entries are settled.
C8_RetriedSentKeepsAttempts ==
  \A m \in Rows :
    (okAfterPass[m] /\ calls[m] = <<"error", "error", "ok">>)
      => /\ ledger[m].attempts = 2
         /\ Settled(m) => ledger[m].status = "sent"

\* C9: with the schedulers alone on the queue, a row has at most one entry
\* and a queued row exactly one; a scheduler publishes only for the row its
\* createBirthdayMessage returned, and writes queued only after the publish.
C9_PublishThenQueued ==
  /\ \A m \in RecordIds : m \notin Rows => queue[m] = 0
  /\ \A m \in Rows :
       /\ queue[m] <= 1
       /\ ledger[m].status \in {"pending", "queued"}
       /\ ledger[m].status = "queued" => queue[m] = 1
       /\ (queue[m] = 1 /\ ledger[m].status = "pending")
            => \E i \in Instances : spc[i] = "markAsQueued" /\ smsg[i] = m
  /\ \A i \in Instances :
       /\ spc[i] = "publish"
            => /\ screate[i] = "created"
               /\ smsg[i] \in Rows
               /\ queue[smsg[i]] = 0
               /\ ledger[smsg[i]].status = "pending"
       /\ spc[i] = "markAsQueued"
            => /\ screate[i] = "created"
               /\ queue[smsg[i]] = 1
               /\ ledger[smsg[i]].status = "pending"

\* One scheduler created, published and marked a row queued; another call
\* created nothing and the row still has its one entry.
C9_QueuedOnce ==
  \E i, j \in Instances :
    /\ screate[i] = "created" /\ smsg[i] \in Rows
    /\ ledger[smsg[i]].status = "queued" /\ queue[smsg[i]] = 1
    /\ screate[j] = "null"

\* C10: a checkBirthdays run that finds the scheduler lock taken changes
\* nothing: no lock, no row, no entry, and no step into the scan.
C10_SkippedRunDoesNothing ==
  [][(nscans' # nscans /\ locks[SchedulerKey] # "none")
       => /\ locks' = locks
          /\ ledger' = ledger
          /\ queue' = queue
          /\ spc' = spc /\ stzs' = stzs /\ susers' = susers
          /\ smsg' = smsg /\ screate' = screate]_vars

\* An instance skipped its run while the other still held the lock.
C10_SkippedWhileHeld ==
  \E i, j \in Instances :
    /\ i # j
    /\ srun[i] = "skipped"
    /\ locks[SchedulerKey] = j
    /\ spc[j] # "idle"

\* C11: within one tick at most one instance gets past the scheduler lock
\* and performs the scan.
C11_OneScanPerTick ==
  Cardinality({i \in Instances : srun[i] = "ran"}) <= 1

\* The notifier calls for record m that failed.
IsError(c) == c = "error"
Failures(m) == Len(SelectSeq(calls[m], IsError))

\* C12: a worker that did not get the processing lock leaves the row alone:
\* the row never records the lock error, and its attempt count never exceeds
\* the number of notifier calls that failed for it.
C12_LockFailureLeavesLedger ==
  \A m \in Rows :
    /\ ledger[m].lastError # "Could not acquire processing lock"
    /\ ledger[m].attempts <= Failures(m)

\* C13: a worker that holds the processing lock and reads no row, or a row
\* already sent, goes to the end of processMessage with no error: the
\* notifier is not called and the ledger is not written; the callback then
\* acknowledges the entry, which goes neither back to the queue nor to the
\* dead-letter queue.
C13_MissingOrSentIsDropped ==
  [][\A i \in Instances :
       /\ (/\ wpc[i] = "findById"
           /\ wpc'[i] # "findById"
           /\ (wmsg[i] \notin Rows \/ ledger[wmsg[i]].status = "sent"))
            => /\ wpc'[i] = "finally"
               /\ werr'[i] = "null"
               /\ locks[ProcessKey(wmsg[i])] = i
               /\ calls' = calls
               /\ ledger' = ledger
       /\ (/\ wpc[i] = "finally"
           /\ wpc'[i] # "finally"
           /\ werr[i] = "null")
            => /\ wpc'[i] = "idle"
               /\ wmsg'[i] = 0
               /\ queue' = queue /\ dlq' = dlq
               /\ calls' = calls
               /\ ledger' = ledger]_vars

\* The entry of the deleted row was taken by a worker and is gone, with no
\* notifier call and no row written.
C13_OrphanDropped ==
  /\ ledger = <<>>
  /\ queue[1] = 0 /\ dlq[1] = 0
  /\ calls[1] = <<>>
  /\ \A i \in Instances : wpc[i] = "idle"

\* C14: a row becomes sent only by the markAsSent of the worker whose
\* notifier call for it has returned 2xx; that step sets sentAt and leaves
\* the attempt count alone, and the worker then acknowledges the entry.
C14_SentAfterSuccess ==
  /\ [][\A m \in Rows :
          (ledger[m].status # "sent" /\ ledger'[m].status = "sent")
            => /\ \E i \in Instances :
                    /\ wpc[i] = "markAsSent" /\ wmsg[i] = m
                    /\ wpc'[i] = "finally" /\ werr'[i] = "null"
               /\ calls[m] # <<>>
               /\ calls[m][Len(calls[m])] = "ok"
               /\ ledger'[m].sentAt
               /\ ledger'[m].attempts = ledger[m].attempts]_vars
  /\ [][\A i \in Instances :
          (wpc[i] = "markAsSent" /\ wpc'[i] # "markAsSent")
            => /\ ledger'[wmsg[i]].status = "sent"
               /\ ledger'[wmsg[i]].sentAt
               /\ ledger'[wmsg[i]].attempts = ledger[wmsg[i]].attempts
               /\ queue' = queue /\ dlq' = dlq]_vars
  /\ [](\A i \in Instances :
          (wpc[i] = "finally" /\ werr[i] = "null"
           /\ wmsg[i] \in Rows /\ calls[wmsg[i]] # <<>>
           /\ calls[wmsg[i]][Len(calls[wmsg[i]])] = "ok")
            => ledger[wmsg[i]].sentAt)

\* A queued row was sent at the first call and its entry acknowledged.
C14_SentAndAcked ==
  /\ npasses = 0
  /\ calls[1] = <<"ok">>
  /\ ledger # <<>>
  /\ ledger[1].status = "sent" /\ ledger[1].sentAt /\ ledger[1].attempts = 0
  /\ queue[1] = 0 /\ dlq[1] = 0
  /\ \A i \in Instances : wpc[i] = "idle"

C16_DelayDoesNotBlock ==
  \A i \in Instances :
    (wpc[i] = "setTimeout" /\ \E m \in RecordIds : queue[m] > 0)
      => ENABLED consume(i)

\* C17: while a worker is between the increment and the update of
\* markAsFailed, no other process reads the ledger (a recovery query, a
\* findById of another worker) or writes the status or attempt count of
\* that row.
C17_MarkAsFailedAtomic ==
  [][\A i \in Instances :
       (wpc[i] = "update" /\ wpc'[i] = "update" /\ wmsg[i] \in Rows)
         => /\ ledger'[wmsg[i]].status = ledger[wmsg[i]].status
            /\ ledger'[wmsg[i]].attempts = ledger[wmsg[i]].attempts
            /\ \A j \in Instances :
                 /\ ~(rpc[j] = "getPending" /\ rpc'[j] # "getPending")
                 /\ ~(wpc[j] \in {"findById", "handleFailure"}
                      /\ wpc'[j] # wpc[j])]_vars

\* The status changes of the lifecycle: pending -> queued -> sent,
\* pending/queued -> failed -> pending.
Lifecycle ==
  {<<"pending", "queued">>, <<"queued", "sent">>, <<"pending", "failed">>,
   <<"queued", "failed">>, <<"failed", "pending">>}

\* C18: every status change of a row is one of the lifecycle; the change
\* failed -> sent of a redelivered entry whose call succeeds, which the
\* retry policy itself produces, is let through here, so that what is
\* refuted is the rest.
C18_OnlyLifecycleChanges ==
  [][\A m \in Rows :
       ledger'[m].status # ledger[m].status
         => \/ <<ledger[m].status, ledger'[m].status>> \in Lifecycle
            \/ <<ledger[m].status, ledger'[m].status>> = <<"failed", "sent">>
    ]_vars

\* C19: an invocation of the recovery job that does not get the recovery
\* lock changes no row, no queue, no lock and starts no query; an instance
\* is inside a run exactly while it holds the lock, so every run that got
\* the lock has released it when it is over, also the run whose query
\* threw; and a query that throws changes nothing and leads to the finally
\* block of the same run.
C19_SkipAndRelease ==
  /\ [][\A i \in Instances :
          (rrun'[i] = "skipped" /\ rrun[i] # "skipped")
            => /\ locks[RecoveryKey] \notin {"none", i}
               /\ UNCHANGED <<ledger, queue, dlq, locks, rpc, rbatch>>]_vars
  /\ [](\A i \in Instances :
          /\ rpc[i] # "idle" => locks[RecoveryKey] = i
          /\ rpc[i] = "idle" => locks[RecoveryKey] # i)
  /\ [][\A i \in Instances :
          (rrun'[i] = "caught" /\ rrun[i] # "caught")
            => /\ rpc'[i] = "finally"
               /\ UNCHANGED <<ledger, queue, dlq, locks>>]_vars

\* One instance skipped while the other held the lock, and the run of the
\* other, whose query threw, is over with the lock free.
C19_SkippedAndCaught ==
  \E i, j \in Instances :
    /\ rrun[i] = "caught" /\ rpc[i] = "idle"
    /\ rrun[j] = "skipped"
    /\ locks[RecoveryKey] = "none"

\* C20: in a pass of the recovery job a row whose user does not load gets no
\* queue entry and no write; a row of the batch is only ever left behind by
\* going on to the row after it, in the same loop, whether it was skipped,
\* re-queued, or its publish or ledger write threw; and a run that started
\* a loop ends only when the batch is used up.
C20_SkipAndContinue ==
  /\ [][\A m \in Rows :
          user(ledger, m) = "null"
            => ledger'[m] = ledger[m] /\ queue'[m] = queue[m]]_vars
  /\ [][\A i \in Instances :
          (rbatch[i] # <<>> /\ rbatch'[i] # rbatch[i])
            => /\ rbatch'[i] = Tail(rbatch[i])
               /\ rpc'[i] \in {"pendingPublish", "resetToPending"}]_vars
  /\ [][\A i \in Instances :
          (rpc[i] # "idle" /\ rpc'[i] = "idle") => rbatch[i] = <<>>]_vars

\* The pass is over: the publish of the first pending row threw, so the row
\* is still pending with no entry, and the second row was re-queued.
C20_SecondRequeuedAfterError ==
  /\ \A i \in Instances : rpc[i] = "idle"
  /\ \E i \in Instances : rrun[i] = "ran"
  /\ Len(ledger) = 2
  /\ user(ledger, 1) # "null"
  /\ ledger[1].status = "pending" /\ queue[1] = 0
  /\ ledger[2].status = "queued" /\ queue[2] = 1

\* C21: getFailedMessagesForRetry(max, limit) returns failed rows below max
\* only, oldest-updated first, and min(limit, k) of them when the table
\* holds k failed rows below max.
Retryable(L, maxAttempts) ==
  {m \in 1..Len(L) : L[m].status = "failed" /\ L[m].attempts < maxAttempts}

C21_LimitOfRetryable ==
  fargs.fn = "getFailedMessagesForRetry" =>
    LET k == Cardinality(Retryable(ledger, fargs.maxAttempts))
    IN /\ \A n \in 1..Len(fret) : fret[n] \in Retryable(ledger, fargs.maxAttempts)
       /\ \A n \in 1..(Len(fret) - 1) : fret[n] < fret[n + 1]
       /\ Len(fret) = IF fargs.limit < k THEN fargs.limit ELSE k

\* C22: during a lease of a key acquireLock has returned true to its holder
\* and to no one else; when every instance has called for a key since it
\* was last free, exactly one of them got true; a call returns true only
\* when the key was free, and then the caller holds it.
C22_OneHolder ==
  /\ [](\A key \in CallKeys :
          LET won == {i \in Instances : Returned[i][key] = "true"}
          IN /\ Cardinality(won) <= 1
             /\ \A i \in won : locks[key] = i
             /\ (\A i \in Instances : Returned[i][key] # "none")
                  => Cardinality(won) = 1
             /\ (\E i \in Instances : Returned[i][key] = "false")
                  => locks[key] # "none")
  /\ [][\A i \in Instances, key \in CallKeys :
          (Returned[i][key] = "none" /\ Returned'[i][key] # "none")
            => /\ (Returned'[i][key] = "true") = (locks[key] = "none")
               /\ locks'[key] = IF locks[key] = "none" THEN i ELSE locks[key]
      ]_vars

\* Both instances called for the scheduler lock while it was free: one got
\* true and holds it, the other got false.
C22_OneTrueOneFalse ==
  /\ fargs # NoCall
  /\ Returned["i1"][SchedulerKey] = "true"
  /\ Returned["i2"][SchedulerKey] = "false"
  /\ locks[SchedulerKey] = "i1"

\* C23: the 09:00 minute of u1's birthday was missed by every instance;
\* once an instance is back, has run a scheduler tick and a recovery pass
\* that met no error, last year's row is sent and nothing is left in
\* flight, this year's record of u1 is sent.
C23_MissedTickRecovered ==
  (/\ nscans >= 2 /\ npasses >= 1 /\ rrun["i1"] = "ran"
   /\ ledger[1].status = "sent"
   /\ spc["i1"] = "idle" /\ rpc["i1"] = "idle" /\ wpc["i1"] = "idle"
   /\ \A m \in RecordIds : queue[m] = 0)
    => \E m \in Rows :
         /\ ledger[m].userId = "u1" /\ ledger[m].year = year
         /\ ledger[m].status = "sent"
\* C24: once the tick is over, an error logged for Zone/A and none for
\* Zone/B means Zone/B was processed in full (its user has a queued row and
\* an entry on the queue); an error never ends the run: the step that logs
\* it leaves the scheduler in the timezone loop, at the next timezone, and
\* the scheduler lock is held exactly while a run is between its acquire
\* and its finally block.
ErrorsIn(tz) == {e \in slog : e[1] = tz}

C24_OtherZoneProcessed ==
  /\ \A i \in Instances : (spc[i] # "idle") <=> (locks[SchedulerKey] = i)
  /\ (/\ \A i \in Instances : spc[i] = "idle"
      /\ ErrorsIn("Zone/A") # {}
      /\ ErrorsIn("Zone/B") = {})
       => \E m \in Rows :
            /\ ledger[m].userId = "u2" /\ ledger[m].status = "queued"
            /\ queue[m] = 1

C24_ErrorInAThenBQueued ==
  /\ \A i \in Instances : spc[i] = "idle"
  /\ slog = {<<"Zone/A", "-">>}
  /\ \E m \in Rows :
       /\ ledger[m].userId = "u2" /\ ledger[m].status = "queued"
       /\ queue[m] = 1

\* C25: when the only error of the 09:00 tick was raised while u1 was
\* processed, then once a later tick and a recovery pass have run without
\* an error, u1's record is sent and nothing is left in flight, the other
\* user matched in that tick, u2, has a record of the year.
C25_MissedWorkCaught ==
  (/\ slog = {<<"Zone/A", "u1">>}
   /\ nscans = MaxScans /\ npasses >= 1 /\ rrun["i1"] = "ran"
   /\ spc["i1"] = "idle" /\ rpc["i1"] = "idle" /\ wpc["i1"] = "idle"
   /\ \A m \in RecordIds : queue[m] = 0
   /\ \E m \in Rows : ledger[m].userId = "u1" /\ ledger[m].status = "sent")
    => \E m \in Rows : ledger[m].userId = "u2" /\ ledger[m].year = year

\* C26: no error leaves the consume callback: the callback of no consumer
\* ends as a rejected promise while it holds an entry it has not acked,
\* rejected or nacked.
C26_NoErrorEscapes ==
  \A i \in Instances :
    ~(/\ wpc[i] = "unhandledRejection"
      /\ queue[wmsg[i]] = 0 /\ dlq[wmsg[i]] = 0)

\* C27: a user whose stored birthday is Feb 29 is among the users found
\* for their timezone on Feb 28 of a year that is not a leap year.
C27_LeapDayOnFeb28 ==
  (/\ fargs.fn = "findUsersWithBirthdayInTimezones"
   /\ fargs.users["u1"].birthdayMonth = 2
   /\ fargs.users["u1"].birthdayDay = 29
   /\ ~IsLeap(fargs.today.y)
   /\ fargs.today.m = 2 /\ fargs.today.d = 28)
    => fret = <<"u1">>

\* C28: the row carries the year of the recipient's local date, its
\* scheduledFor reads 09:00 of that date on the recipient's clock, and the
\* lock key carries the year of the row, for every server timezone.
C28_LocalYear ==
  fargs.fn = "createAndQueueBirthdayMessage" =>
    LET local == Shift(fargs.now, fargs.zone)
    IN /\ fret.year = local.date.y
       /\ Shift(fret.scheduledFor, fargs.zone)
            = [date |-> local.date, hour |-> 9]
       /\ fret.lockYear = fret.year

\* C30: create (and update) store the month and the day written in the
\* birthday string, for every timezone of the server.
C30_StoredAsWritten ==
  fargs.fn \in {"create", "update"} =>
    /\ fret.birthdayMonth = fargs.birthday.m
    /\ fret.birthdayDay = fargs.birthday.d

\* C29: sendMessage returns exactly when the request came to a response
\* of status 200..299 and throws for every other status, the timeout and
\* every transport error; and each call that threw is one attempt on the
\* row once handleFailure has recorded it: the attempts of the row are the
\* calls that threw, less the one a worker is still recording.
Failed(m) == Len(SelectSeq(calls[m], LAMBDA c : c = "error"))
Recording(m) ==
  Cardinality({i \in Instances :
                 /\ wmsg[i] = m /\ werr[i] # "null"
                 /\ wpc[i] \in {"finally", "handleFailure", "increment"}})

C29_SuccessIs2xx ==
  /\ fargs.fn = "sendMessage" =>
       /\ (fret = "void") <=>
            /\ fargs.post.kind = "response"
            /\ fargs.post.status \in 200..299
       /\ calls[1] # <<>>
       /\ (calls[1][Len(calls[1])] = "ok") <=> (fret = "void")
  /\ \A m \in Rows : ledger[m].attempts = Failed(m) - Recording(m)

C29_TimeoutCounted ==
  /\ fargs.fn = "sendMessage"
  /\ fargs.post.kind = "axios" /\ fargs.post.code = "ECONNABORTED"
  /\ fret = "Email service timeout"
  /\ wpc[fargs.by] = "setTimeout"
  /\ calls[1] = <<"error">>
  /\ ledger[1].attempts = 1 /\ ledger[1].status = "failed"

\* C31: a run of checkBirthdays that acquired the scheduler lock ends only
\* through its finally block, whose step leaves the lock free, whether the
\* scan ran, no zone read the target time, or the body threw; so an
\* instance that is not inside a run does not hold the lock.
C31_ReleasedOnEveryExit ==
  /\ [](\A i \in Instances :
          spc[i] = "idle" => locks[SchedulerKey] # i)
  /\ [][\A i \in Instances :
          (spc[i] # "idle" /\ spc'[i] = "idle")
            => /\ spc[i] = "release"
               /\ locks[SchedulerKey] = i
               /\ locks'[SchedulerKey] = "none"]_vars

C31_ReleasedAfterThrow ==
  /\ <<"-", "-">> \in slog
  /\ \E i \in Instances : srun[i] = "ran" /\ spc[i] = "idle"
  /\ \A i \in Instances : spc[i] = "idle"
  /\ locks[SchedulerKey] = "none"

\* C32: the process-<id> lock is held by a worker exactly while it is
\* inside the try block of processMessage; processMessage is left only
\* through the finally block, whose step frees the lock, whatever it read
\* and whatever was thrown; and a worker that did not get the lock goes to
\* handleFailure and never changes a lock.
InTry == {"findById", "sendBirthdayEmail", "markAsSent", "finally"}

C32_ReleasedBeforeReturn ==
  /\ [](\A i \in Instances, m \in RecordIds :
          (locks[ProcessKey(m)] = i) <=> (wpc[i] \in InTry /\ wmsg[i] = m))
  /\ [][\A i \in Instances :
          /\ (wpc[i] \in InTry /\ wpc'[i] \notin InTry)
               => /\ wpc[i] = "finally"
                  /\ locks'[ProcessKey(wmsg[i])] = "none"
          /\ (wpc[i] \notin InTry /\ wpc'[i] \notin InTry /\ wpc'[i] # wpc[i])
               => locks' = locks]_vars

C32_MissedAndReleased ==
  \E i, j \in Instances :
    /\ werr[j] = "Could not acquire processing lock"
    /\ wpc[j] = "setTimeout"
    /\ werr[i] = "Connection terminated"
    /\ wpc[i] = "handleFailure"
    /\ locks[ProcessKey(wmsg[i])] = "none"

\* C33: the step in which the scheduler's publish throws goes on to the next
\* user without a write, so the scheduler leaves the row pending and adds
\* no entry; the pending query of a recovery
\* pass returns every pending row whose scheduledFor has passed; the pass
\* publishes one entry for the row in hand and only then marks it queued;
\* and no row is queued without an entry on the queue.
Elements(seq) == {seq[k] : k \in 1..Len(seq)}

C33_PendingThenRepublished ==
  /\ [](\A m \in Rows : ledger[m].status = "queued" => queue[m] >= 1)
  /\ [][/\ (spc["i1"] = "publish" /\ spc'["i1"] = "tz")
            => ledger' = ledger /\ queue' = queue
        /\ \A i \in Instances :
             /\ (rpc[i] = "getPending" /\ rpc'[i] = "pendingPublish")
                  => Elements(rbatch'[i])
                       = {m \in Rows : /\ ledger[m].status = "pending"
                                       /\ ledger[m].scheduledFor = "past"}
             /\ (rpc[i] = "pendingPublish"
                   /\ rpc'[i] = "pendingMarkAsQueued")
                  => queue' = [queue EXCEPT ![Head(rbatch[i])] = @ + 1]
             /\ (rpc[i] = "pendingMarkAsQueued" /\ rpc'[i] # rpc[i])
                  => \/ ledger' = ledger
                     \/ ledger' = [ledger EXCEPT
                                     ![Head(rbatch[i])].status = "queued"]
       ]_vars

C33_RepublishedAfterFailure ==
  /\ slog = {<<"Zone/A", "u1">>}
  /\ \A i \in Instances : spc[i] = "idle" /\ rpc[i] = "idle"
  /\ \E m \in Rows :
       /\ ledger[m].userId = "u1"
       /\ ledger[m].status = "queued"
       /\ queue[m] = 1

\* C34: a consumer service whose start-up is over, which has a channel and
\* no connection attempt left to run, consumes the birthday queue.
C34_ConsumingOnceConnected ==
  \A i \in Instances :
    (ipc[i] = "done" /\ consumerChannel[i] /\ ~timer[i]) => consuming[i]

\* C35: a row whose status is sent keeps that status, its attempt count,
\* its error and its sentAt in every step.
C35_SentIsFinal ==
  [][\A m \in Rows : ledger[m].status = "sent" => ledger'[m] = ledger[m]]_vars

\* C36: the attempt count of a row is at most MAX_RETRY_ATTEMPTS in every
\* state (that no step lowers it holds: no update writes the column and
\* increment adds one).
C36_AtMostCeiling == \A m \in Rows : ledger[m].attempts <= MAX_RETRY_ATTEMPTS

\* The entries of record m that are not settled: waiting on the queue, or
\* delivered to a consumer and not yet acked, rejected or nacked.
Unsettled(m) ==
  queue[m] + Cardinality({i \in Instances : wpc[i] # "idle" /\ wmsg[i] = m})

\* C37: no record has more than one unsettled queue entry.
C37_OneEntryPerRecord == \A m \in RecordIds : Unsettled(m) <= 1

\* C38: with no lease running out, the workers inside the try block of
\* processMessage for a record are at most one, that worker is the holder
\* of process-<id>, and so at most one notifier call for the record is in
\* flight.
C38_OneWorkerPerRecord ==
  \A m \in RecordIds :
    LET inside == {i \in Instances : wmsg[i] = m /\ wpc[i] \in InTry}
    IN /\ Cardinality(inside) <= 1
       /\ \A i \in inside : locks[ProcessKey(m)] = i
       /\ Cardinality({i \in Instances :
                         wmsg[i] = m /\ wpc[i] = "sendBirthdayEmail"}) <= 1

C38_SecondWorkerKeptOut ==
  \E i, j \in Instances :
    /\ wmsg[i] = 1 /\ wpc[i] = "sendBirthdayEmail"
    /\ wmsg[j] = 1 /\ wpc[j] = "handleFailure"
    /\ werr[j] = "Could not acquire processing lock"

\* C39: the release at the end of a scheduler run whose instance no longer
\* holds birthday-scheduler-lock leaves the key as it is, with the lease of
\* the instance that has acquired it since.
C39_ReleaseOnlyOwnLease ==
  [][\A i \in Instances :
       (/\ spc[i] = "release"
        /\ spc'[i] = "idle"
        /\ locks[SchedulerKey] # i)
         => locks'[SchedulerKey] = locks[SchedulerKey]]_vars

\* The row has reached the end of its lifecycle.
Final(m) ==
  \/ ledger[m].status = "sent"
  \/ ledger[m].status = "failed" /\ ledger[m].attempts >= MAX_RETRY_ATTEMPTS

\* C40: every row is in the end sent, or failed with its attempt count at
\* the ceiling or above, and stays so.
C40_EveryRecordSettles == <>[](\A m \in Rows : Final(m))

====
